---------------------------- MODULE Spec2Model ----------------------------
(***************************************************************************)
(* Model of the migration orchestrator of proxmox-migrator:                *)
(*   migration_service.migrate_vm, the progress tracker of disk_service    *)
(*   (migration_status, update_migration_status) and the endpoints of      *)
(*   app.py that start a run, confirm the VM stop and cancel a run.        *)
(*                                                                         *)
(* Every worker thread executes migrate_vm once.  One action is one remote *)
(* call of the workflow together with the local code that follows it up to *)
(* the next remote call (status updates included).  A remote call either   *)
(* returns or raises; which of the two is chosen nondeterministically.     *)
(***************************************************************************)
EXTENDS Integers, Sequences, FiniteSets, TLC

(***************************************************************************)
(* Inputs the model draws from.                                            *)
(***************************************************************************)
Threads == {"w1", "w2"}          \* worker threads the endpoint can spawn
ThreadOrder == <<"w1", "w2">>
Slots == {"scsi0", "scsi1"}      \* disk slots of the source VM config
SlotOrder == <<"scsi0", "scsi1">> \* iteration order of the config dict
Storages == {"nfs1", "lvm1"}     \* destination pools a request can map to
Pools == Storages \cup {"local"} \* pools of the destination node
DestNode == "pve2"               \* data['dest_node']
OtherNode == "pve3"              \* another node of the destination cluster
SrcVmid == 100                   \* data['vmid'] of every request
MaxPreexisting == 2              \* ids SrcVmid .. SrcVmid+MaxPreexisting-1 may be taken

NoSlot == "none"

(***************************************************************************)
(* disk_service.MIGRATION_STAGES.  Percentages are kept as integers in     *)
(* units of 1/PDen percent so that the stage arithmetic stays exact.       *)
(***************************************************************************)
PDen == 30 * 100 * 7

MIGRATION_STAGES ==
  [ initializing    |-> [start |-> 0,  end |-> 3],
    validation      |-> [start |-> 3,  end |-> 6],
    connecting      |-> [start |-> 6,  end |-> 12],
    vm_info         |-> [start |-> 12, end |-> 15],
    vm_stopping     |-> [start |-> 15, end |-> 25],
    ssh_connection  |-> [start |-> 25, end |-> 30],
    dest_connecting |-> [start |-> 30, end |-> 35],
    config_reading  |-> [start |-> 35, end |-> 40],
    vm_creation     |-> [start |-> 40, end |-> 50],
    disk_migration  |-> [start |-> 50, end |-> 90],
    network_config  |-> [start |-> 90, end |-> 95],
    cleanup         |-> [start |-> 95, end |-> 98],
    completed       |-> [start |-> 98, end |-> 100] ]

Min(a, b) == IF a <= b THEN a ELSE b

\* step -> stage classification of update_migration_status
StageOf(step) ==
  CASE step \in {"vm_stopped", "vm_ready"} -> "vm_stopping"
    [] step \in {"ssh_connecting", "ssh_connected"} -> "ssh_connection"
    [] step \in {"vm_id_check", "vm_id_available", "vm_id_changed",
                 "vm_creating", "vm_created"} -> "vm_creation"
    [] step \in {"disk_processing", "disk_creating", "disk_created",
                 "disk_attaching", "disk_attached", "disk_copying",
                 "disk_copied", "disk_detecting_type", "disk_downloading",
                 "disk_uploading"} -> "disk_migration"
    [] step \in {"network_mapping", "network_applied"} -> "network_config"
    [] step \in {"cleanup_done"} -> "cleanup"
    [] step = "error" -> "error"
    [] OTHER -> step

\* stage_progress arguments are passed in tenths of a percent (sp10)
calculate_stage_progress(stage_key, sp10) ==
  IF stage_key \notin DOMAIN MIGRATION_STAGES THEN 0
  ELSE IF stage_key = "completed" THEN 100 * PDen
  ELSE LET stage == MIGRATION_STAGES[stage_key]
           stage_range == stage.end - stage.start
       IN  Min(100 * PDen, stage.start * PDen + (stage_range * sp10 * PDen) \div 1000)

\* the same with the current disk counted as complete
calculate_disk_progress_CountsCurrent(current_disk, total_disks, sp10) ==
  IF total_disks = 0 THEN 0
  ELSE (current_disk * 40 * PDen) \div total_disks
       + (sp10 * 40 * PDen) \div (total_disks * 1000)

calculate_disk_progress(current_disk, total_disks, sp10) ==
  IF total_disks = 0 THEN 0
  ELSE ((current_disk - 1) * 40 * PDen) \div total_disks
       + (sp10 * 40 * PDen) \div (total_disks * 1000)

NoOverride == -1

\* texts (message, details) are tuples; the empty text is '' or None
NoText == <<>>

\* line 218: the number of entries the activity log keeps
LogCap == 30

\* A specification that does not follow the activity log holds this value
\* in its place; appends and resets leave it as it is.
Untracked == <<[message |-> <<"untracked">>, progress |-> -1]>>

Abs(x) == IF x < 0 THEN -x ELSE x

\* lines 196-204: the entry of an update (message and int(progress); the
\* timestamp, the stage name and the key are not followed)
activity_entry(activity_text, calculated_progress) ==
  [message |-> activity_text, progress |-> calculated_progress \div PDen]

\* the same with the progress compared for equality
is_duplicate_ExactProgress(log, entry) ==
  LET n == Len(log)
      recent_entries == SubSeq(log, IF n > 3 THEN n - 2 ELSE 1, n)
  IN  \E i \in 1..Len(recent_entries) :
        /\ recent_entries[i].message = entry.message
        /\ recent_entries[i].progress = entry.progress

\* lines 206-212
is_duplicate(log, entry) ==
  LET n == Len(log)
      recent_entries == SubSeq(log, IF n > 3 THEN n - 2 ELSE 1, n)
  IN  \E i \in 1..Len(recent_entries) :
        /\ recent_entries[i].message = entry.message
        /\ Abs(recent_entries[i].progress - entry.progress) <= 1

\* the same keeping the first LogCap entries
append_activity_KeepsOldest(log, entry) ==
  LET appended == Append(log, entry) IN
  IF Len(appended) > LogCap THEN SubSeq(appended, 1, LogCap) ELSE appended

\* lines 214-219: details.append(entry), then details[-30:] when longer
append_activity(log, entry) ==
  LET appended == Append(log, entry) IN
  IF Len(appended) > LogCap
  THEN SubSeq(appended, Len(appended) - LogCap + 1, Len(appended))
  ELSE appended

\* lines 192-219: the activity log after an update
log_after(log, message, details, calculated_progress) ==
  IF log = Untracked \/ (details = NoText /\ message = NoText) THEN log
  ELSE LET entry == activity_entry(IF details # NoText THEN details ELSE message,
                                   calculated_progress)
       IN  IF is_duplicate(log, entry) THEN log ELSE append_activity(log, entry)

\* lines 172-184
calculated_progress_of(ms, step, progress_override, sp10) ==
  IF progress_override # NoOverride THEN Min(progress_override * PDen, 100 * PDen)
  ELSE IF StageOf(step) = "disk_migration" /\ ms.total_disks > 0
       THEN 50 * PDen + calculate_disk_progress(ms.current_disk, ms.total_disks, sp10)
  ELSE calculate_stage_progress(StageOf(step), sp10)

\* update_migration_status(step, progress_override, message, details,
\* stage_progress): the new value of the shared record
update_migration_status(ms, step, progress_override, message, details, sp10) ==
  LET current_stage == StageOf(step)
      calculated_progress == calculated_progress_of(ms, step, progress_override, sp10)
  IN  [ms EXCEPT !.step = step,
                 !.current_stage = current_stage,
                 !.progress = calculated_progress,
                 !.message = message,
                 !.details = log_after(@, message, details, calculated_progress)]

\* the keyword parameters update_migration_status declares
UpdateParams == {"step", "progress_override", "message", "details", "stage_progress"}


(***************************************************************************)
(* State.                                                                  *)
(***************************************************************************)
VARIABLES
  migration_status,  \* disk_service.migration_status, shared by all threads
  pc,                \* position of every worker thread in migrate_vm
  data,              \* the request each thread was started with
  loc,               \* local variables of migrate_vm, per thread
  src_vm,            \* the source cluster: the VM to migrate
  dest_vms,          \* the destination cluster: its VMs
  dest_attached,     \* the destination cluster: disks in the VM configs
  dest_vols,         \* the destination node: volumes in its pools
  hist               \* per thread: calls issued and faults met (history)

vars == <<migration_status, pc, data, loc, src_vm, dest_vms, dest_attached,
          dest_vols, hist>>

\* type of every destination pool (dest_proxmox.storage.get())
StorageType == [nfs1 |-> "nfs", lvm1 |-> "lvmthin", local |-> "dir"]

\* the digits of a slot key: ''.join(filter(str.isdigit, disk_key))
SlotDigits == [scsi0 |-> 0, scsi1 |-> 1]

(***************************************************************************)
(* Source disk values.  A value "<storage>:<file>[,<options>]" is kept as  *)
(* the fields the workflow reads from it:                                  *)
(*   has_slash  '/' occurs in the file part                                *)
(*   name_num   n of the "-disk-<n>" segment of the file name, -1 if none  *)
(*   ext        extension of the file name ("" if none)                    *)
(*   format_opt value of a format= option ("" if none)                     *)
(*   cdrom      media=cdrom among the options or the file ends in .iso     *)
(***************************************************************************)
FileDisk(d)  == [has_slash |-> TRUE,  name_num |-> d,  ext |-> "qcow2",
                 format_opt |-> "", cdrom |-> FALSE]
BlockDisk(d) == [has_slash |-> FALSE, name_num |-> d,  ext |-> "",
                 format_opt |-> "", cdrom |-> FALSE]
CdromDisk    == [has_slash |-> TRUE,  name_num |-> -1, ext |-> "iso",
                 format_opt |-> "", cdrom |-> TRUE]

DiskValues(s) == {FileDisk(SlotDigits[s]), BlockDisk(SlotDigits[s]), CdromDisk}

\* the disk entries a source VM config can hold
SrcConfigs ==
  UNION {[S -> UNION {DiskValues(s) : s \in S}] : S \in SUBSET Slots}

WellFormedConfig(c) == \A s \in DOMAIN c : c[s] \in DiskValues(s)

\* storage_mappings of a request: slot -> destination pool ({} is the empty dict)
Mappings == UNION {[S -> Storages] : S \in SUBSET Slots}

\* a request: complete = every required field is present
Requests ==
  {[complete |-> TRUE, storage_mappings |-> m] : m \in Mappings}
  \cup {[complete |-> FALSE, storage_mappings |-> [s \in {"scsi0"} |-> "nfs1"]]}

NoRequest == [complete |-> FALSE, storage_mappings |-> [s \in {} |-> "nfs1"]]

\* utils.validate_migration_data
validate_migration_data(d) ==
  /\ d.complete
  /\ DOMAIN d.storage_mappings # {}

\* line 167: the number of ids the search tries
max_attempts == 100

\* the VM ids that can already be taken on the destination cluster: none, the
\* first few from the requested id on, or every id the search can try
PreexistingVms ==
  {{}} \cup
  {{[vmid |-> SrcVmid + i, node |-> n, by |-> "pre"] : i \in 0..(k - 1)} :
      k \in 1..MaxPreexisting, n \in {DestNode, OtherNode}}
  \cup {{[vmid |-> SrcVmid + i, node |-> DestNode, by |-> "pre"] : i \in 0..max_attempts}}

\* A size is a number with a unit letter ("" for a bare number); this value
\* stands for a disk whose options have no size= entry.
NoSizeOption == [num |-> -1, unit |-> "none"]

\* the arguments and locals of an update_migration_status call in progress
NoCall ==
  [step |-> "", current_stage |-> "", calculated_progress |-> 0,
   message |-> NoText, details |-> NoText]

\* The value a get_migration_status call has returned, as its caller holds
\* it.  dict.copy() is shallow: the copy has its own step, stage, progress
\* and message, while its 'details' list and its 'disk_transfer' dict are
\* the objects of the live record until the live record is given new ones.
\*   value       what the caller reads from the returned dict now
\*   at_return   what it held when the call returned
NoReturned ==
  [polled |-> FALSE, value |-> <<>>, at_return |-> <<>>,
   details_shared |-> FALSE, transfer_shared |-> FALSE]

\* copy_disk_data: the disk being copied and what the copy has done so far.
\* Sizes are in tenths of a GiB (size10), free space in whole GiB as df -BG
\* prints it; a file name is its vmid, its disk number (-1: the name has no
\* disk-<n> segment) and its extensions.
NoCopy ==
  [branch |-> "none", num |-> 0, format |-> "", data_vmid |-> 0,
   size10 |-> 0, ls |-> "", df |-> "", avail_gb |-> 0,
   checked |-> FALSE, downloaded |-> FALSE, uploaded |-> FALSE,
   dest_name |-> <<>>, rename_tried |-> {}]

NoLocals ==
  [vm_status |-> "none", has_dest |-> FALSE, has_target |-> FALSE,
   target_vmid |-> 0, attempt |-> 0, disk_configs |-> [s \in {} |-> CdromDisk],
   data_vmid |-> 0, queue |-> <<>>, cur |-> NoSlot, current_disk |-> 0,
   disk_name |-> <<>>, error_msg |-> <<>>,
   call |-> NoCall, updates |-> 0, returned |-> NoReturned,
   vm_config |-> <<>>, create_config |-> <<>>,
   raw_size |-> NoSizeOption, size |-> NoSizeOption, copy |-> NoCopy]

NoHist ==
  [calls |-> {}, contacted |-> {}, faulted |-> FALSE, cleanup_faulted |-> FALSE,
   confirmed |-> FALSE, cancelled |-> FALSE]

\* disk_service.py: the module-level value of migration_status.  The keys
\* needs_confirmation and stop_confirmed are absent until the first run;
\* every read of them uses .get(key, False).
InitStatus ==
  [active |-> FALSE, vmid |-> 0, step |-> "", progress |-> 0,
   message |-> <<>>, current_stage |-> "", current_disk |-> 0,
   total_disks |-> 0, needs_confirmation |-> FALSE, stop_confirmed |-> FALSE,
   details |-> <<>>,
   disk_transfer |-> [active |-> FALSE, transfer_type |-> ""]]

Init ==
  /\ migration_status = InitStatus
  /\ pc = [t \in Threads |-> "idle"]
  /\ data = [t \in Threads |-> NoRequest]
  /\ loc = [t \in Threads |-> NoLocals]
  /\ \E st \in {"running", "stopped"}, c \in SrcConfigs :
       /\ WellFormedConfig(c)
       /\ src_vm = [exists |-> TRUE, status |-> st, disks |-> c]
  /\ dest_vms \in PreexistingVms
  /\ dest_attached = {}
  /\ dest_vols = {}
  /\ hist = [t \in Threads |-> NoHist]

(***************************************************************************)
(* Helpers shared by the actions.                                          *)
(***************************************************************************)
Msg(step) == <<"status", step>>

\* update_migration_status(step, stage_progress=sp10/10) on the shared record
Publish(ms, step, sp10) ==
  update_migration_status(ms, step, NoOverride, Msg(step), NoText, sp10)

\* the same with a message that carries a value of the run
PublishText(ms, step, message, sp10) ==
  update_migration_status(ms, step, NoOverride, message, NoText, sp10)

\* update_migration_status(step, progress_override, message)
PublishAt(ms, step, progress_override) ==
  update_migration_status(ms, step, progress_override, Msg(step), NoText, 0)

Goto(t, l) == pc' = [pc EXCEPT ![t] = l]

Running(t) == pc[t] \notin {"idle", "done"}

Called(t, c) == [hist[t] EXCEPT !.calls = @ \cup {c}]
Faulted(h) == [h EXCEPT !.faulted = TRUE]
\* the run has opened (or tried to open) a connection to endpoint e
Contacted(h, e) == [h EXCEPT !.contacted = @ \cup {e}]

\* migrate_vm lines 643-650 and 633-635: the three direct assignments
ErrorStatus(ms, msg) ==
  [ms EXCEPT !.active = FALSE, !.step = "error", !.message = msg]

\* migrate_vm lines 643-650: the outer handler
RaiseOuter(t, ms, cause) ==
  /\ migration_status' = ErrorStatus(ms, <<"Error in migration process", cause>>)
  /\ loc' = [loc EXCEPT ![t].error_msg = <<"Error in migration process", cause>>]
  /\ Goto(t, "done")

\* migrate_vm lines 581-589, 633-638: entry of the inner handler, with the
\* status record ms and the locals l at the time of the raise
RaiseInner(t, ms, l, cause) ==
  LET error_msg == <<"Error during migration", cause>> IN
  /\ loc' = [loc EXCEPT ![t] = [l EXCEPT !.error_msg = error_msg]]
  /\ IF l.has_target /\ l.has_dest
     THEN /\ migration_status' = Publish(ms, "cleanup_error", 250)
          /\ Goto(t, "cleanup_vm")
     ELSE /\ migration_status' = ErrorStatus(ms, error_msg)
          /\ Goto(t, "done")


(***************************************************************************)
(* app.py: the endpoints.                                                  *)
(***************************************************************************)
\* POST /migrate: starts migrate_vm(data) on a new thread, whatever the
\* state of the status record is (threads are taken in ThreadOrder)
migrate_vm_endpoint(t, d) ==
  /\ pc[t] = "idle"
  /\ \A i, j \in 1..Len(ThreadOrder) :
       (ThreadOrder[j] = t /\ i < j) => pc[ThreadOrder[i]] # "idle"
  /\ data' = [data EXCEPT ![t] = d]
  /\ Goto(t, "begin")
  /\ UNCHANGED <<migration_status, loc, src_vm, dest_vms, dest_attached,
                 dest_vols, hist>>

\* POST /confirm-vm-stop.  hist records the confirmations that arrive after
\* a run has reset the flag and before it has ended.
confirm_vm_stop ==
  /\ migration_status' = [migration_status EXCEPT !.stop_confirmed = TRUE]
  /\ hist' = [t \in Threads |->
                IF pc[t] \notin {"idle", "begin", "done"}
                THEN [hist[t] EXCEPT !.confirmed = TRUE] ELSE hist[t]]
  /\ UNCHANGED <<pc, data, loc, src_vm, dest_vms, dest_attached, dest_vols>>

\* POST /cancel-migration.  hist records the cancellations that arrive while
\* a run stands at the running-VM check.
cancel_migration ==
  /\ migration_status' = [migration_status EXCEPT !.active = FALSE]
  /\ hist' = [t \in Threads |->
                IF pc[t] = "check_running" /\ loc[t].vm_status = "running"
                THEN [hist[t] EXCEPT !.cancelled = TRUE] ELSE hist[t]]
  /\ UNCHANGED <<pc, data, loc, src_vm, dest_vms, dest_attached, dest_vols>>

(***************************************************************************)
(* migration_service.migrate_vm, up to the creation of the destination VM. *)
(***************************************************************************)
\* Variant: the run starts on the record as the previous run left it.
Begin_KeepsLeftovers(t) ==
  /\ pc[t] = "begin"
  /\ LET ms1 == update_migration_status(migration_status, "initializing", NoOverride,
                                        Msg("initializing"),
                                        <<"details", "initializing">>, 0)
     IN  migration_status' = [ms1 EXCEPT !.active = TRUE, !.vmid = SrcVmid]
  /\ loc' = [loc EXCEPT ![t] = [NoLocals EXCEPT !.data_vmid = SrcVmid]]
  /\ Goto(t, "validate")
  /\ UNCHANGED <<data, src_vm, dest_vms, dest_attached, dest_vols, hist>>

\* lines 18-30
Begin(t) ==
  /\ pc[t] = "begin"
  /\ LET reset == [migration_status EXCEPT !.details = IF @ = Untracked THEN @ ELSE <<>>,
                                           !.current_disk = 0,
                                           !.total_disks = 0,
                                           !.needs_confirmation = FALSE,
                                           !.stop_confirmed = FALSE]
         ms1 == update_migration_status(reset, "initializing", NoOverride,
                                        Msg("initializing"),
                                        <<"details", "initializing">>, 0)
     IN  migration_status' = [ms1 EXCEPT !.active = TRUE, !.vmid = SrcVmid]
  /\ loc' = [loc EXCEPT ![t] = [NoLocals EXCEPT !.data_vmid = SrcVmid]]
  /\ Goto(t, "validate")
  /\ UNCHANGED <<data, src_vm, dest_vms, dest_attached, dest_vols, hist>>

\* Variant: the request is not validated before the connections are made.
Validate_Skipped(t) ==
  /\ pc[t] = "validate"
  /\ migration_status' =
       Publish(Publish(migration_status, "validation", 500), "connecting", 300)
  /\ Goto(t, "connect_source")
  /\ UNCHANGED <<data, loc, src_vm, dest_vms, dest_attached, dest_vols, hist>>

\* lines 35-40
Validate(t) ==
  /\ pc[t] = "validate"
  /\ LET ms1 == Publish(migration_status, "validation", 500) IN
     IF validate_migration_data(data[t])
     THEN /\ migration_status' = Publish(ms1, "connecting", 300)
          /\ Goto(t, "connect_source")
          /\ UNCHANGED loc
     ELSE RaiseOuter(t, ms1, "validation")
  /\ UNCHANGED <<data, src_vm, dest_vms, dest_attached, dest_vols, hist>>

\* lines 41-48: the cluster records and the source control plane
ConnectSource(t) ==
  /\ pc[t] = "connect_source"
  /\ \E ok \in BOOLEAN :
       IF ok
       THEN /\ migration_status' = Publish(migration_status, "vm_info", 0)
            /\ Goto(t, "vm_info")
            /\ hist' = [hist EXCEPT ![t] = Contacted(@, "source_api")]
            /\ UNCHANGED loc
       ELSE /\ RaiseOuter(t, migration_status, "connect_source")
            /\ hist' = [hist EXCEPT ![t] = Faulted(Contacted(@, "source_api"))]
  /\ UNCHANGED <<data, src_vm, dest_vms, dest_attached, dest_vols>>

\* lines 50-55, utils.get_vm_info
VmInfo(t) ==
  /\ pc[t] = "vm_info"
  /\ \E ok \in BOOLEAN :
       IF ok /\ src_vm.exists
       THEN /\ migration_status' = Publish(migration_status, "ssh_connection", 200)
            /\ loc' = [loc EXCEPT ![t].vm_status = src_vm.status]
            /\ Goto(t, "check_running")
            /\ UNCHANGED hist
       ELSE /\ RaiseOuter(t, migration_status, "vm_info")
            /\ hist' = [hist EXCEPT ![t] = Faulted(@)]
  /\ UNCHANGED <<data, src_vm, dest_vms, dest_attached, dest_vols>>

\* the keyword arguments of the call at lines 61-63
ConfirmCallKw == {"message", "details", "needs_confirmation"}

\* Python raises TypeError for a keyword the callee does not declare
RaisesTypeError(kw) == ~(kw \subseteq (UpdateParams \ {"step"}))

\* Variant: the stop command is posted as soon as the VM is found running,
\* without any confirmation.
CheckRunning_StopsUnconfirmed(t) ==
  /\ pc[t] = "check_running"
  /\ src_vm' = IF loc[t].vm_status = "running"
               THEN [src_vm EXCEPT !.status = "stopped"] ELSE src_vm
  /\ migration_status' =
       Publish(Publish(migration_status, "vm_ready", 1000), "ssh_connecting", 300)
  /\ Goto(t, "ssh_connect")
  /\ UNCHANGED <<data, loc, dest_vms, dest_attached, dest_vols, hist>>

\* Variant: a VM found running is migrated as it is, neither stopped nor
\* refused.
CheckRunning_GoesOnRunning(t) ==
  /\ pc[t] = "check_running"
  /\ migration_status' =
       Publish(Publish(migration_status, "vm_ready", 1000), "ssh_connecting", 300)
  /\ Goto(t, "ssh_connect")
  /\ UNCHANGED <<data, loc, src_vm, dest_vms, dest_attached, dest_vols, hist>>

\* lines 57-63 and 117-123.  For a running VM the call at line 61 passes
\* needs_confirmation=True to update_migration_status, which has no such
\* parameter: the call raises before anything is published, so the wait
\* loops and the stop command of lines 66-116 are never executed.
CheckRunning(t) ==
  /\ pc[t] = "check_running"
  /\ IF loc[t].vm_status = "running"
     THEN /\ RaisesTypeError(ConfirmCallKw)
          /\ RaiseInner(t, migration_status, loc[t], "TypeError needs_confirmation")
     ELSE /\ migration_status' =
               Publish(Publish(migration_status, "vm_ready", 1000), "ssh_connecting", 300)
          /\ Goto(t, "ssh_connect")
          /\ UNCHANGED loc
  /\ UNCHANGED <<data, src_vm, dest_vms, dest_attached, dest_vols, hist>>

\* lines 125-136: ssh.connect and ssh.open_sftp
SshConnect(t) ==
  /\ pc[t] = "ssh_connect"
  /\ \E ok \in BOOLEAN :
       IF ok
       THEN /\ migration_status' =
                 Publish(Publish(migration_status, "ssh_connected", 1000),
                         "dest_connecting", 500)
            /\ Goto(t, "dest_connect")
            /\ hist' = [hist EXCEPT ![t] = Contacted(@, "ssh")]
            /\ UNCHANGED loc
       ELSE /\ RaiseInner(t, migration_status, loc[t], "ssh")
            /\ hist' = [hist EXCEPT ![t] = Faulted(Contacted(@, "ssh"))]
  /\ UNCHANGED <<data, src_vm, dest_vms, dest_attached, dest_vols>>

\* lines 138-141
DestConnect(t) ==
  /\ pc[t] = "dest_connect"
  /\ \E ok \in BOOLEAN :
       IF ok
       THEN /\ migration_status' = Publish(migration_status, "config_reading", 300)
            /\ loc' = [loc EXCEPT ![t].has_dest = TRUE]
            /\ Goto(t, "config_read")
            /\ hist' = [hist EXCEPT ![t] = Contacted(@, "dest_api")]
       ELSE /\ RaiseInner(t, migration_status, loc[t], "dest_connect")
            /\ hist' = [hist EXCEPT ![t] = Faulted(Contacted(@, "dest_api"))]
  /\ UNCHANGED <<data, src_vm, dest_vms, dest_attached, dest_vols>>

\* lines 143-167: read the source config, split off the disk entries
ConfigRead(t) ==
  /\ pc[t] = "config_read"
  /\ \E ok \in BOOLEAN :
       IF ok /\ src_vm.exists
       THEN LET disk_configs == src_vm.disks
                ms1 == [migration_status EXCEPT
                          !.total_disks = Cardinality(DOMAIN disk_configs)]
            IN  /\ migration_status' = Publish(ms1, "vm_id_check", 200)
                /\ loc' = [loc EXCEPT ![t].disk_configs = disk_configs,
                                      ![t].target_vmid = loc[t].data_vmid,
                                      ![t].has_target = TRUE,
                                      ![t].attempt = 0]
                /\ Goto(t, "probe")
                /\ UNCHANGED hist
       ELSE /\ RaiseInner(t, migration_status, loc[t], "config_read")
            /\ hist' = [hist EXCEPT ![t] = Faulted(@)]
  /\ UNCHANGED <<data, src_vm, dest_vms, dest_attached, dest_vols>>

\* lines 169-230: one pass of the id search.  The cluster-wide listing sees
\* every VM of the cluster; the fallback asks the destination node only and
\* takes any failure of that call for "the id is free".
Probe(t) ==
  /\ pc[t] = "probe"
  /\ loc[t].attempt < max_attempts
  /\ \E resources_ok \in BOOLEAN, node_ok \in BOOLEAN :
       LET target == loc[t].target_vmid
           vm_exists ==
             IF resources_ok
             THEN \E v \in dest_vms : v.vmid = target
             ELSE node_ok /\ \E v \in dest_vms : v.vmid = target /\ v.node = DestNode
           h == IF resources_ok THEN hist[t] ELSE Faulted(hist[t])
       IN
       /\ resources_ok => node_ok   \* the fallback is only called after a failure
       /\ IF vm_exists
          THEN LET ms1 == PublishText(migration_status, "vm_id_check",
                                      <<"status", "vm_id_taken", target + 1>>,
                                      200 + 3 * loc[t].attempt)
                   l1 == [loc[t] EXCEPT !.target_vmid = target + 1,
                                        !.attempt = @ + 1]
               IN  IF l1.attempt = max_attempts
                   THEN /\ RaiseInner(t, ms1, l1, "no free VM id")
                        /\ hist' = [hist EXCEPT ![t] = h]
                   ELSE /\ migration_status' = ms1
                        /\ loc' = [loc EXCEPT ![t] = l1]
                        /\ Goto(t, "probe")
                        /\ hist' = [hist EXCEPT ![t] = h]
          ELSE LET ms1 == Publish(migration_status, "vm_id_available", 600)
                   ms2 == IF target # loc[t].data_vmid
                          THEN Publish(ms1, "vm_id_changed", 700) ELSE ms1
               IN  /\ migration_status' = Publish(ms2, "vm_creating", 800)
                   /\ loc' = [loc EXCEPT ![t].data_vmid = target]
                   /\ Goto(t, "create_vm")
                   /\ hist' = [hist EXCEPT ![t] = h]
  /\ UNCHANGED <<data, src_vm, dest_vms, dest_attached, dest_vols>>


(***************************************************************************)
(* migrate_vm: VM shell, disk selection and the per-disk loop.             *)
(***************************************************************************)
\* Variant: every disk of the source config is taken, mapped or not.
disks_to_migrate_AllPresent(disk_configs, storage_mappings) ==
  SelectSeq(SlotOrder, LAMBDA s : s \in DOMAIN disk_configs)

\* lines 244-250: slots present in the source config and keyed in the
\* storage mapping, in the iteration order of the config
disks_to_migrate(disk_configs, storage_mappings) ==
  SelectSeq(SlotOrder, LAMBDA s : s \in DOMAIN disk_configs /\ s \in DOMAIN storage_mappings)

\* Variant: an empty disk selection is treated as a failure of the run.
CreateVm_FailsWithoutDisks(t) ==
  /\ pc[t] = "create_vm"
  /\ \E ok \in BOOLEAN :
       LET target == loc[t].target_vmid
           q == disks_to_migrate(loc[t].disk_configs, data[t].storage_mappings)
       IN
       IF ok /\ ~(\E v \in dest_vms : v.vmid = target)
       THEN LET ms1 == Publish(migration_status, "vm_created", 1000)
                ms2 == [ms1 EXCEPT !.total_disks = Len(q)]
            IN  /\ dest_vms' = dest_vms \cup {[vmid |-> target, node |-> DestNode, by |-> t]}
                /\ hist' = [hist EXCEPT ![t] = Called(t, <<"vm_create", "vm">>)]
                /\ IF Len(q) = 0
                   THEN RaiseInner(t, ms2, loc[t], "no disks")
                   ELSE /\ migration_status' = ms2
                        /\ loc' = [loc EXCEPT ![t].queue = q, ![t].current_disk = 0]
                        /\ Goto(t, "disk_next")
       ELSE /\ RaiseInner(t, migration_status, loc[t], "vm_create")
            /\ hist' = [hist EXCEPT ![t] = Faulted(@)]
            /\ UNCHANGED dest_vms
  /\ UNCHANGED <<data, src_vm, dest_attached, dest_vols>>

\* lines 233-270
CreateVm(t) ==
  /\ pc[t] = "create_vm"
  /\ \E ok \in BOOLEAN :
       LET target == loc[t].target_vmid IN
       IF ok /\ ~(\E v \in dest_vms : v.vmid = target)
       THEN LET q == disks_to_migrate(loc[t].disk_configs, data[t].storage_mappings)
                ms1 == Publish(migration_status, "vm_created", 1000)
                ms2 == [ms1 EXCEPT !.total_disks = Len(q)]
            IN  /\ dest_vms' = dest_vms \cup {[vmid |-> target, node |-> DestNode, by |-> t]}
                /\ loc' = [loc EXCEPT ![t].queue = q, ![t].current_disk = 0]
                /\ hist' = [hist EXCEPT ![t] = Called(t, <<"vm_create", "vm">>)]
                /\ IF Len(q) = 0
                   THEN /\ migration_status' = Publish(ms2, "migration_complete", 1000)
                        /\ Goto(t, "done")
                   ELSE /\ migration_status' = ms2
                        /\ Goto(t, "disk_next")
       ELSE /\ RaiseInner(t, migration_status, loc[t], "vm_create")
            /\ hist' = [hist EXCEPT ![t] = Faulted(@)]
            /\ UNCHANGED dest_vms
  /\ UNCHANGED <<data, src_vm, dest_attached, dest_vols>>

\* where the loop goes after the disk at the head of the queue
AfterDisk(q) == IF Len(q) > 1 THEN "disk_next" ELSE "network"

\* Variant: the loop attaches the disk without creating it first.
DiskNext_SkipsCreate(t) ==
  /\ pc[t] = "disk_next"
  /\ loc[t].queue # <<>>
  /\ LET disk_key == Head(loc[t].queue)
         d == loc[t].disk_configs[disk_key]
         current_disk == loc[t].current_disk + 1
         ms1 == Publish([migration_status EXCEPT !.current_disk = current_disk],
                        "disk_processing", 50)
     IN  IF d.cdrom
         THEN /\ migration_status' = Publish(ms1, "disk_skipped", 100)
              /\ loc' = [loc EXCEPT ![t].queue = Tail(@),
                                    ![t].current_disk = current_disk,
                                    ![t].cur = NoSlot]
              /\ Goto(t, AfterDisk(loc[t].queue))
         ELSE /\ migration_status' = Publish(ms1, "disk_creating", 200)
              /\ loc' = [loc EXCEPT ![t].current_disk = current_disk,
                                    ![t].cur = disk_key]
              /\ Goto(t, "disk_attach")
  /\ UNCHANGED <<data, src_vm, dest_vms, dest_attached, dest_vols, hist>>

\* Variant: the loop treats CD-ROM media like any other disk.
DiskNext_KeepsCdrom(t) ==
  /\ pc[t] = "disk_next"
  /\ loc[t].queue # <<>>
  /\ LET disk_key == Head(loc[t].queue)
         current_disk == loc[t].current_disk + 1
         ms1 == Publish([migration_status EXCEPT !.current_disk = current_disk],
                        "disk_processing", 50)
     IN  /\ migration_status' = Publish(ms1, "disk_creating", 200)
         /\ loc' = [loc EXCEPT ![t].current_disk = current_disk,
                               ![t].cur = disk_key]
         /\ Goto(t, "disk_create")
  /\ UNCHANGED <<data, src_vm, dest_vms, dest_attached, dest_vols, hist>>

\* lines 272-351: take the next disk, skip CD-ROM media
DiskNext(t) ==
  /\ pc[t] = "disk_next"
  /\ loc[t].queue # <<>>
  /\ LET disk_key == Head(loc[t].queue)
         d == loc[t].disk_configs[disk_key]
         current_disk == loc[t].current_disk + 1
         ms1 == Publish([migration_status EXCEPT !.current_disk = current_disk],
                        "disk_processing", 50)
     IN  IF d.cdrom
         THEN /\ migration_status' = Publish(ms1, "disk_skipped", 100)
              /\ loc' = [loc EXCEPT ![t].queue = Tail(@),
                                    ![t].current_disk = current_disk,
                                    ![t].cur = NoSlot]
              /\ Goto(t, AfterDisk(loc[t].queue))
         ELSE /\ migration_status' = Publish(ms1, "disk_creating", 200)
              /\ loc' = [loc EXCEPT ![t].current_disk = current_disk,
                                    ![t].cur = disk_key]
              /\ Goto(t, "disk_create")
  /\ UNCHANGED <<data, src_vm, dest_vms, dest_attached, dest_vols, hist>>

\* lines 356-373
original_disk_identifier(disk_key, d) ==
  IF d.has_slash /\ d.name_num >= 0 THEN d.name_num ELSE SlotDigits[disk_key]

\* lines 421-439
original_format(d) ==
  IF d.format_opt # "" THEN d.format_opt
  ELSE IF d.has_slash /\ d.ext \in {"qcow2", "raw", "vmdk", "vdi"} THEN d.ext
  ELSE "qcow2"

\* a volume "vm-<vmid>-disk-<num>[.<ext>]" of a pool
Vol(pool, vmid, num, ext) == [pool |-> pool, vmid |-> vmid, num |-> num, ext |-> ext]

\* lines 401-405 and 447-451: the volumes the pre-creation check deletes
Colliding(vols, pool, vmid, num, ext) ==
  {v \in vols : v.pool = pool /\ v.vmid = vmid /\ v.num = num
                /\ (v.ext = ext \/ v.ext # "")}

\* lines 336-347: the pool of a disk; a slot without a mapping falls back to
\* the first pool of the mapping, and to 'local' when the mapping is empty
dest_storage_of(storage_mappings, disk_key) ==
  IF disk_key \in DOMAIN storage_mappings THEN storage_mappings[disk_key]
  ELSE IF DOMAIN storage_mappings # {}
  THEN storage_mappings[Head(SelectSeq(SlotOrder, LAMBDA s : s \in DOMAIN storage_mappings))]
  ELSE "local"

\* Variant: the handler notes the failure, gives up the failing disk only
\* and lets the loop go on with the next one.
RaiseDisk_SkipsDisk(t, ms, cause) ==
  /\ migration_status' = ms
  /\ loc' = [loc EXCEPT ![t].queue = Tail(@), ![t].cur = NoSlot,
                        ![t].error_msg = <<"Error during migration", cause>>]
  /\ Goto(t, IF Len(loc[t].queue) > 1 THEN "disk_next" ELSE "network")

\* lines 530-533: the handler around one disk
RaiseDisk(t, ms, cause) ==
  RaiseInner(t, [ms EXCEPT !.active = FALSE], loc[t], cause)

\* lines 377-467: storage type, removal of colliding volumes, creation
DiskCreate(t) ==
  /\ pc[t] = "disk_create"
  /\ \E type_ok \in BOOLEAN, list_ok \in BOOLEAN, create_ok \in BOOLEAN :
       LET disk_key == loc[t].cur
           d == loc[t].disk_configs[disk_key]
           dest_storage == dest_storage_of(data[t].storage_mappings, disk_key)
           target == loc[t].target_vmid
           ident == original_disk_identifier(disk_key, d)
           storage_type == IF type_ok THEN StorageType[dest_storage] ELSE "dir"
           ext == IF storage_type \in {"lvmthin", "lvm", "zfspool"} THEN ""
                  ELSE original_format(d)
           vol == Vol(dest_storage, target, ident, ext)
           colliding == Colliding(dest_vols, dest_storage, target, ident, ext)
       IN
       \E D \in SUBSET colliding :
         /\ ~list_ok => D = {}
         /\ LET vols1 == dest_vols \ D
                h == IF type_ok /\ list_ok /\ D = colliding /\ create_ok
                     THEN hist[t] ELSE Faulted(hist[t])
            IN  IF create_ok /\ vol \notin vols1
                THEN /\ dest_vols' = vols1 \cup {vol}
                     /\ migration_status' = Publish(migration_status, "disk_created", 400)
                     /\ loc' = [loc EXCEPT ![t].disk_name = vol]
                     /\ hist' = [hist EXCEPT ![t] =
                                   [h EXCEPT !.calls = @ \cup {<<"create", disk_key>>}]]
                     /\ Goto(t, "disk_attach")
                ELSE /\ dest_vols' = vols1
                     /\ RaiseDisk(t, migration_status, "disk_create")
                     /\ hist' = [hist EXCEPT ![t] = Faulted(h)]
  /\ UNCHANGED <<data, src_vm, dest_vms, dest_attached>>

\* lines 469-521: verification listing (failure tolerated), attach
DiskAttach(t) ==
  /\ pc[t] = "disk_attach"
  /\ \E verify_ok \in BOOLEAN, put_ok \in BOOLEAN :
       LET disk_key == loc[t].cur
           target == loc[t].target_vmid
           ms1 == Publish(migration_status, "disk_attaching", 500)
           h == IF verify_ok /\ put_ok THEN hist[t] ELSE Faulted(hist[t])
       IN
       IF put_ok /\ (\E v \in dest_vms : v.vmid = target /\ v.node = DestNode)
       THEN /\ dest_attached' = dest_attached \cup
                 {[vmid |-> target, slot |-> disk_key, vol |-> loc[t].disk_name]}
            /\ migration_status' =
                 Publish(Publish(ms1, "disk_attached", 600), "disk_copying", 700)
            /\ hist' = [hist EXCEPT ![t] =
                          [h EXCEPT !.calls = @ \cup {<<"attach", disk_key>>}]]
            /\ Goto(t, "disk_copy")
            /\ UNCHANGED loc
       ELSE /\ RaiseDisk(t, ms1, "disk_attach")
            /\ hist' = [hist EXCEPT ![t] = Faulted(h)]
            /\ UNCHANGED dest_attached
  /\ UNCHANGED <<data, src_vm, dest_vms, dest_vols>>

\* disk_service.py lines 490-566 and 925-975: the pool the upload lands in.
\* Mounted file pools receive it under their own mount point; for a block
\* pool, or when the pool lookup fails, it goes to /var/lib/vz/images, the
\* directory of the pool "local"; a dir pool with the standard path gets it
\* under /mnt/pve/<pool>, which no pool lists.
UploadPool(dest_storage, lookup_ok) ==
  IF ~lookup_ok THEN "local"
  ELSE IF StorageType[dest_storage] \in {"glusterfs", "nfs", "cifs"} THEN dest_storage
  ELSE IF StorageType[dest_storage] = "dir" THEN "unlisted"
  ELSE "local"

CopyOutcomes == {"ok", "ok_not_renamed", "fail_before_upload", "fail_upload"}

\* the name the upload has before the rename: "<source file name>.raw"
StagedVol(pool, d) ==
  Vol(pool, SrcVmid, d.name_num, IF d.ext = "" THEN "raw" ELSE "qcow2.raw")

\* disk_service.py lines 690-723 and 1014-1041: the name after the rename
RenamedVol(pool, vmid, d) == Vol(pool, vmid, d.name_num, "qcow2")

\* lines 517-533 and disk_service.copy_disk_data as one step: the data
\* reaches the destination host or the copy raises
DiskCopy(t) ==
  /\ pc[t] = "disk_copy"
  /\ \E outcome \in CopyOutcomes, lookup_ok \in BOOLEAN :
       LET disk_key == loc[t].cur
           d == loc[t].disk_configs[disk_key]
           pool == UploadPool(dest_storage_of(data[t].storage_mappings, disk_key),
                              lookup_ok)
           h == IF lookup_ok /\ outcome = "ok" THEN hist[t] ELSE Faulted(hist[t])
       IN
       /\ outcome \in {"ok", "ok_not_renamed", "fail_upload"} => src_vm.exists
       /\ IF outcome \in {"ok", "ok_not_renamed"}
          THEN /\ dest_vols' = dest_vols \cup
                    {IF outcome = "ok" THEN RenamedVol(pool, loc[t].data_vmid, d)
                     ELSE StagedVol(pool, d)}
               /\ migration_status' = Publish(migration_status, "disk_copied", 950)
               /\ loc' = [loc EXCEPT ![t].queue = Tail(@), ![t].cur = NoSlot]
               /\ hist' = [hist EXCEPT ![t] =
                             [h EXCEPT !.calls = @ \cup {<<"copy", disk_key>>}]]
               /\ Goto(t, AfterDisk(loc[t].queue))
          ELSE /\ dest_vols' = IF outcome = "fail_upload"
                               THEN dest_vols \cup {StagedVol(pool, d)}
                               ELSE dest_vols
               /\ RaiseDisk(t, Publish(migration_status,
                                       IF outcome = "fail_upload" THEN "disk_uploading"
                                       ELSE "disk_locating",
                                       IF outcome = "fail_upload" THEN 900 ELSE 780),
                            "disk_copy")
               /\ hist' = [hist EXCEPT ![t] = h]
  /\ UNCHANGED <<data, src_vm, dest_vms, dest_attached>>


(***************************************************************************)
(* migrate_vm: network remap, source deletion, completion.                 *)
(***************************************************************************)
DestVmOnNode(vmid) == \E v \in dest_vms : v.vmid = vmid /\ v.node = DestNode

\* lines 535-560; nm: the request carries network_mappings, upd: one of its
\* interfaces is in the destination VM's config
NetworkMap(t) ==
  /\ pc[t] = "network"
  /\ \E nm \in BOOLEAN, get_ok \in BOOLEAN, upd \in BOOLEAN, put_ok \in BOOLEAN :
       LET ms1 == Publish(migration_status, "network_mapping", 300)
           exists == DestVmOnNode(loc[t].target_vmid)
       IN
       IF ~nm
       THEN /\ Goto(t, "finish")
            /\ UNCHANGED <<migration_status, loc, hist>>
       ELSE IF ~(get_ok /\ exists)
       THEN /\ RaiseInner(t, ms1, loc[t], "network_config_get")
            /\ hist' = [hist EXCEPT ![t] = Faulted(@)]
       ELSE IF ~upd
       THEN /\ migration_status' = ms1
            /\ Goto(t, "finish")
            /\ UNCHANGED <<loc, hist>>
       ELSE IF put_ok
       THEN /\ migration_status' = Publish(ms1, "network_applied", 800)
            /\ Goto(t, "finish")
            /\ UNCHANGED <<loc, hist>>
       ELSE /\ RaiseInner(t, ms1, loc[t], "network_config_put")
            /\ hist' = [hist EXCEPT ![t] = Faulted(@)]
  /\ UNCHANGED <<data, src_vm, dest_vms, dest_attached, dest_vols>>

\* lines 570-579
Completed(ms) ==
  [PublishAt(ms, "completed", 100) EXCEPT !.active = FALSE]

\* lines 562-579; ds: the request sets delete_source
Finish(t) ==
  /\ pc[t] = "finish"
  /\ \E ds \in BOOLEAN, del_ok \in BOOLEAN :
       LET ms1 == Publish(migration_status, "cleanup", 500) IN
       IF ~ds
       THEN /\ migration_status' = Completed(migration_status)
            /\ Goto(t, "done")
            /\ UNCHANGED <<loc, src_vm, hist>>
       ELSE IF del_ok /\ src_vm.exists
       THEN /\ src_vm' = [src_vm EXCEPT !.exists = FALSE]
            /\ migration_status' = Completed(Publish(ms1, "cleanup_done", 1000))
            /\ hist' = [hist EXCEPT ![t] = Called(t, <<"source_delete", "vm">>)]
            /\ Goto(t, "done")
            /\ UNCHANGED loc
       ELSE /\ RaiseInner(t, ms1, loc[t], "source_delete")
            /\ hist' = [hist EXCEPT ![t] = Faulted(@)]
            /\ UNCHANGED src_vm
  /\ UNCHANGED <<data, dest_vms, dest_attached, dest_vols>>

(***************************************************************************)
(* migrate_vm: compensating cleanup (lines 584-638).                       *)
(***************************************************************************)
CleanupFaulted(h) == [h EXCEPT !.cleanup_faulted = TRUE]

\* Variant: the orphan search is left out when the VM deletion succeeded.
CleanupVm_EndsWhenDeleted(t) ==
  /\ pc[t] = "cleanup_vm"
  /\ \E ok \in BOOLEAN :
       LET target == loc[t].target_vmid IN
       IF ok /\ DestVmOnNode(target)
       THEN /\ dest_vms' = {v \in dest_vms : v.vmid # target}
            /\ dest_attached' = {a \in dest_attached : a.vmid # target}
            /\ dest_vols' = dest_vols \ {a.vol : a \in {b \in dest_attached : b.vmid = target}}
            /\ migration_status' =
                 ErrorStatus(Publish(migration_status, "cleanup_vm_done", 750),
                             loc[t].error_msg)
            /\ hist' = [hist EXCEPT ![t] = Called(t, <<"dest_vm_delete", "vm">>)]
            /\ Goto(t, "done")
       ELSE /\ hist' = [hist EXCEPT ![t] = CleanupFaulted(@)]
            /\ UNCHANGED <<dest_vms, dest_attached, dest_vols, migration_status>>
            /\ Goto(t, "cleanup_disks")
  /\ UNCHANGED <<data, loc, src_vm>>

\* lines 591-599: delete the destination VM; the control plane removes the
\* volumes in its config with it
CleanupVm(t) ==
  /\ pc[t] = "cleanup_vm"
  /\ \E ok \in BOOLEAN :
       LET target == loc[t].target_vmid IN
       IF ok /\ DestVmOnNode(target)
       THEN /\ dest_vms' = {v \in dest_vms : v.vmid # target}
            /\ dest_attached' = {a \in dest_attached : a.vmid # target}
            /\ dest_vols' = dest_vols \ {a.vol : a \in {b \in dest_attached : b.vmid = target}}
            /\ migration_status' = Publish(migration_status, "cleanup_vm_done", 750)
            /\ hist' = [hist EXCEPT ![t] = Called(t, <<"dest_vm_delete", "vm">>)]
       ELSE /\ hist' = [hist EXCEPT ![t] = CleanupFaulted(@)]
            /\ UNCHANGED <<dest_vms, dest_attached, dest_vols, migration_status>>
  /\ Goto(t, "cleanup_disks")
  /\ UNCHANGED <<data, loc, src_vm>>

\* line 606: the pools the orphan search visits
storages_to_check(storage_mappings) ==
  IF DOMAIN storage_mappings # {}
  THEN {storage_mappings[s] : s \in DOMAIN storage_mappings}
  ELSE {"local"}

\* Variant: only names without an extension are matched.
IsOrphanOf_BareNamesOnly(v, target) == v.vmid = target /\ v.ext = ""

\* line 614: f"vm-{target_vmid}-disk-" in volid
IsOrphanOf(v, target) == v.vmid = target

\* Variant: a failing cleanup call escapes to the outer handler of lines
\* 643-650, which reports the cleanup failure.
CleanupDisks_Escalates(t) ==
  /\ pc[t] = "cleanup_disks"
  /\ LET target == loc[t].target_vmid
         pools == storages_to_check(data[t].storage_mappings)
     IN
     \E L \in SUBSET pools :
       LET found == {v \in dest_vols : v.pool \in L /\ v.vmid = target} IN
       \E D \in SUBSET found :
         /\ dest_vols' = dest_vols \ D
         /\ hist' = [hist EXCEPT ![t] =
                       IF L = pools /\ D = found THEN @ ELSE CleanupFaulted(@)]
         /\ migration_status' =
              IF L = pools /\ D = found
              THEN ErrorStatus(Publish(migration_status, "cleanup_complete", 1000),
                               loc[t].error_msg)
              ELSE ErrorStatus(migration_status,
                               <<"Error in migration process", "cleanup">>)
  /\ Goto(t, "done")
  /\ UNCHANGED <<data, loc, src_vm, dest_vms, dest_attached>>

\* lines 601-638: per pool a listing and per matching volume a delete, any
\* of which may fail (L: pools listed, D: volumes deleted); then the final
\* error status with the message of the original failure
CleanupDisks(t) ==
  /\ pc[t] = "cleanup_disks"
  /\ LET target == loc[t].target_vmid
         pools == storages_to_check(data[t].storage_mappings)
     IN
     \E L \in SUBSET pools :
       LET found == {v \in dest_vols : v.pool \in L /\ IsOrphanOf(v, target)} IN
       \E D \in SUBSET found :
         /\ dest_vols' = dest_vols \ D
         /\ hist' = [hist EXCEPT ![t] =
                       IF L = pools /\ D = found THEN @ ELSE CleanupFaulted(@)]
  /\ migration_status' =
       ErrorStatus(Publish(migration_status, "cleanup_complete", 1000), loc[t].error_msg)
  /\ Goto(t, "done")
  /\ UNCHANGED <<data, loc, src_vm, dest_vms, dest_attached>>

(***************************************************************************)
(* Specifications.                                                         *)
(***************************************************************************)
Worker(t) ==
  \/ Begin(t) \/ Validate(t) \/ ConnectSource(t) \/ VmInfo(t)
  \/ CheckRunning(t) \/ SshConnect(t) \/ DestConnect(t) \/ ConfigRead(t)
  \/ Probe(t) \/ CreateVm(t) \/ DiskNext(t) \/ DiskCreate(t)
  \/ DiskAttach(t) \/ DiskCopy(t) \/ NetworkMap(t) \/ Finish(t)
  \/ CleanupVm(t) \/ CleanupDisks(t)

\* the first request the service receives, with any request body
FirstRequest(t) ==
  /\ \A u \in Threads : pc[u] = "idle"
  /\ \E d \in Requests : migrate_vm_endpoint(t, d)

Next ==
  \/ \E t \in Threads : FirstRequest(t)
  \/ \E t \in Threads : Worker(t)
  \/ confirm_vm_stop
  \/ cancel_migration

\* one run of migrate_vm, alone, over every source VM, destination and
\* request of the input sets
Spec == Init /\ [][Next]_vars

\* Several requests, each started whenever the caller likes (while a run is
\* in progress or after it): the endpoint accepts them all.  To keep the
\* interleavings tractable the source VM, the destination and the request
\* body are fixed.
RaceRequest == [complete |-> TRUE, storage_mappings |-> [s \in {"scsi0"} |-> "nfs1"]]

InitRace ==
  /\ pc = [t \in Threads |-> "idle"]
  /\ data = [t \in Threads |-> NoRequest]
  /\ loc = [t \in Threads |-> NoLocals]
  /\ dest_attached = {}
  /\ dest_vols = {}
  /\ hist = [t \in Threads |-> NoHist]
  /\ migration_status = [InitStatus EXCEPT !.details = Untracked]
  /\ src_vm = [exists |-> TRUE, status |-> "stopped",
               disks |-> [s \in {"scsi0"} |-> FileDisk(0)]]
  /\ dest_vms = {}

AnyRequest(t) == migrate_vm_endpoint(t, RaceRequest)

NextRace ==
  \/ \E t \in Threads : AnyRequest(t)
  \/ \E t \in Threads : Worker(t)
  \/ confirm_vm_stop
  \/ cancel_migration

SpecRace == InitRace /\ [][NextRace]_vars

\* Two overlapping runs for the same two-disk VM whose requests select a
\* different number of disks; no confirmation or cancellation arrives.
OverlapRequest(t) ==
  [complete |-> TRUE,
   storage_mappings |-> IF t = ThreadOrder[1] THEN [s \in Slots |-> "nfs1"]
                        ELSE [s \in {"scsi0"} |-> "nfs1"]]

InitOverlap ==
  /\ pc = [t \in Threads |-> "idle"]
  /\ data = [t \in Threads |-> NoRequest]
  /\ loc = [t \in Threads |-> NoLocals]
  /\ dest_attached = {}
  /\ dest_vols = {}
  /\ hist = [t \in Threads |-> NoHist]
  /\ migration_status = [InitStatus EXCEPT !.details = Untracked]
  /\ src_vm = [exists |-> TRUE, status |-> "stopped",
               disks |-> [s \in Slots |-> FileDisk(IF s = "scsi0" THEN 0 ELSE 1)]]
  /\ dest_vms = {}

OverlapStart(t) == migrate_vm_endpoint(t, OverlapRequest(t))

NextOverlap ==
  \/ \E t \in Threads : OverlapStart(t)
  \/ \E t \in Threads : Worker(t)

SpecOverlap == InitOverlap /\ [][NextOverlap]_vars

\* Two runs one after the other: the first migrates the one-disk VM, the
\* second is requested when the first has ended and carries a request
\* that fails validation.  Confirmations of a VM stop may arrive at any
\* time.
RerunRequest(t) ==
  IF t = ThreadOrder[1] THEN RaceRequest
  ELSE [complete |-> FALSE, storage_mappings |-> [s \in {"scsi0"} |-> "nfs1"]]

InitRerun ==
  /\ pc = [t \in Threads |-> "idle"]
  /\ data = [t \in Threads |-> NoRequest]
  /\ loc = [t \in Threads |-> NoLocals]
  /\ dest_attached = {}
  /\ dest_vols = {}
  /\ hist = [t \in Threads |-> NoHist]
  /\ migration_status = InitStatus
  /\ src_vm = [exists |-> TRUE, status |-> "stopped",
               disks |-> [s \in {"scsi0"} |-> FileDisk(0)]]
  /\ dest_vms = {}

RerunStart(t) ==
  /\ \A u \in Threads : pc[u] \in {"idle", "done"}
  /\ migrate_vm_endpoint(t, RerunRequest(t))

NextRerun ==
  \/ \E t \in Threads : RerunStart(t)
  \/ \E t \in Threads : Worker(t)
  \/ confirm_vm_stop

SpecRerun == InitRerun /\ [][NextRerun]_vars

\* update_migration_status as a function of the record and its arguments:
\* the disk counters start at any value up to MaxDisks, and one update of
\* a disk step is applied to the record with every whole in-stage
\* percentage.
MaxDisks == 6

DiskSteps ==
  {"disk_processing", "disk_creating", "disk_created", "disk_attaching",
   "disk_attached", "disk_copying", "disk_copied", "disk_detecting_type",
   "disk_downloading", "disk_uploading"}

InitProgress ==
  /\ pc = [t \in Threads |-> "idle"]
  /\ data = [t \in Threads |-> NoRequest]
  /\ loc = [t \in Threads |-> NoLocals]
  /\ dest_attached = {}
  /\ dest_vols = {}
  /\ dest_vms = {}
  /\ hist = [t \in Threads |-> NoHist]
  /\ src_vm = [exists |-> TRUE, status |-> "stopped",
               disks |-> [s \in {"scsi0"} |-> FileDisk(0)]]
  /\ \E total_disks \in 0..MaxDisks, current_disk \in 0..MaxDisks :
       migration_status = [InitStatus EXCEPT !.details = Untracked,
                                             !.total_disks = total_disks,
                                             !.current_disk = current_disk]

\* update_migration_status(step, stage_progress=p)
ApplyUpdate(step, p) ==
  /\ migration_status.step = ""
  /\ migration_status' =
       update_migration_status(migration_status, step, NoOverride, NoText, NoText, 10 * p)
  /\ UNCHANGED <<pc, data, loc, src_vm, dest_vms, dest_attached, dest_vols, hist>>

NextProgress ==
  \E step \in DiskSteps \cup {"disk_skipped"}, p \in 0..100 : ApplyUpdate(step, p)

SpecProgress == InitProgress /\ [][NextProgress]_vars

\* The status updates of one run, seen from the record alone: the run
\* empties the log and publishes 'initializing' (lines 18-26), then it
\* publishes any sequence of the updates of lines 35-53.
Details(step) == <<"details", step>>

TrackerCallSeq ==
  << [step |-> "validation", details |-> NoText, sp10 |-> 500],
     [step |-> "connecting", details |-> NoText, sp10 |-> 300],
     [step |-> "vm_info", details |-> Details("vm_info"), sp10 |-> 0],
     [step |-> "ssh_connection", details |-> NoText, sp10 |-> 200] >>

TrackerCalls == {TrackerCallSeq[i] : i \in 1..Len(TrackerCallSeq)}

InitLog ==
  /\ pc = [t \in Threads |-> "idle"]
  /\ data = [t \in Threads |-> NoRequest]
  /\ loc = [t \in Threads |-> NoLocals]
  /\ dest_attached = {}
  /\ dest_vols = {}
  /\ dest_vms = {}
  /\ hist = [t \in Threads |-> NoHist]
  /\ src_vm = [exists |-> TRUE, status |-> "stopped",
               disks |-> [s \in {"scsi0"} |-> FileDisk(0)]]
  /\ migration_status = InitStatus

\* lines 18-26
LogStart ==
  /\ migration_status.step = ""
  /\ migration_status' =
       update_migration_status([migration_status EXCEPT !.details = <<>>],
                               "initializing", NoOverride, Msg("initializing"),
                               Details("initializing"), 0)
  /\ UNCHANGED <<pc, data, loc, src_vm, dest_vms, dest_attached, dest_vols, hist>>

\* one later update_migration_status call
LogUpdate(c) ==
  /\ migration_status.step # ""
  /\ migration_status' =
       update_migration_status(migration_status, c.step, NoOverride, Msg(c.step),
                               c.details, c.sp10)
  /\ UNCHANGED <<pc, data, loc, src_vm, dest_vms, dest_attached, dest_vols, hist>>

NextLog ==
  \/ LogStart
  \/ \E c \in TrackerCalls : LogUpdate(c)

SpecLog == InitLog /\ [][NextLog]_vars

(***************************************************************************)
(* The tracker under concurrent use: the worker thread executes            *)
(* update_migration_status statement by statement and reports transfer     *)
(* progress, while a request thread serves GET /migration-status once.     *)
(* Neither function takes a lock.                                          *)
(***************************************************************************)
Updater == ThreadOrder[1]
Poller == ThreadOrder[2]
MaxUpdates == 3
TransferTypes == {"download", "upload"}

\* the record after the run start and n further updates, taken in turn
RECURSIVE StatusAfter(_)
StatusAfter(n) ==
  IF n = 0
  THEN update_migration_status(InitStatus, "initializing", NoOverride,
                               Msg("initializing"), Details("initializing"), 0)
  ELSE LET c == TrackerCallSeq[((n - 1) % Len(TrackerCallSeq)) + 1]
       IN  update_migration_status(StatusAfter(n - 1), c.step, NoOverride,
                                   Msg(c.step), c.details, c.sp10)

\* the poll arrives early in the run or when the log is nearly full
InitPoll ==
  /\ pc = [t \in Threads |-> "idle"]
  /\ data = [t \in Threads |-> NoRequest]
  /\ loc = [t \in Threads |-> NoLocals]
  /\ dest_attached = {}
  /\ dest_vols = {}
  /\ dest_vms = {}
  /\ hist = [t \in Threads |-> NoHist]
  /\ src_vm = [exists |-> TRUE, status |-> "stopped",
               disks |-> [s \in {"scsi0"} |-> FileDisk(0)]]
  /\ \E n \in {0, LogCap - 2} : migration_status = StatusAfter(n)

\* what the holder of a returned copy reads after the live record changed:
\* list_rebound / dict_rebound tell that the live record got a new object
AfterWrite(r, ms_new, list_rebound, dict_rebound) ==
  IF ~r.polled THEN r
  ELSE [r EXCEPT
          !.value = [@ EXCEPT
             !.details = IF r.details_shared /\ ~list_rebound
                         THEN ms_new.details ELSE @,
             !.disk_transfer = IF r.transfer_shared /\ ~dict_rebound
                               THEN ms_new.disk_transfer ELSE @],
          !.details_shared = @ /\ ~list_rebound,
          !.transfer_shared = @ /\ ~dict_rebound]

PollUnchanged == UNCHANGED <<data, src_vm, dest_vms, dest_attached, dest_vols, hist>>

\* disk_service.py lines 150-184: entry of the call, stage and progress
U_Call(c) ==
  /\ pc[Updater] = "idle"
  /\ loc[Updater].updates < MaxUpdates
  /\ loc' = [loc EXCEPT
       ![Updater].updates = @ + 1,
       ![Updater].call =
          [step |-> c.step, current_stage |-> StageOf(c.step),
           calculated_progress |->
              calculated_progress_of(migration_status, c.step, NoOverride, c.sp10),
           message |-> Msg(c.step), details |-> c.details]]
  /\ Goto(Updater, "write_step")
  /\ UNCHANGED migration_status
  /\ PollUnchanged

\* lines 187-190, one statement each
U_Write(at, next) ==
  /\ pc[Updater] = at
  /\ migration_status' =
       CASE at = "write_step" ->
              [migration_status EXCEPT !.step = loc[Updater].call.step]
         [] at = "write_stage" ->
              [migration_status EXCEPT !.current_stage = loc[Updater].call.current_stage]
         [] at = "write_progress" ->
              [migration_status EXCEPT !.progress = loc[Updater].call.calculated_progress]
         [] at = "write_message" ->
              [migration_status EXCEPT !.message = loc[Updater].call.message]
  /\ Goto(Updater, next)
  /\ UNCHANGED loc
  /\ PollUnchanged

U_WriteStep == U_Write("write_step", "write_stage")
U_WriteStage == U_Write("write_stage", "write_progress")
U_WriteProgress == U_Write("write_progress", "write_message")
U_WriteMessage == U_Write("write_message", "log_append")

\* lines 192-215: the entry is appended to the list in place
U_LogAppend ==
  /\ pc[Updater] = "log_append"
  /\ LET c == loc[Updater].call
         log == migration_status.details
         entry == activity_entry(IF c.details # NoText THEN c.details ELSE c.message,
                                 c.calculated_progress)
     IN  IF (c.details = NoText /\ c.message = NoText) \/ is_duplicate(log, entry)
         THEN /\ UNCHANGED <<migration_status, loc>>
              /\ Goto(Updater, "idle")
         ELSE LET ms1 == [migration_status EXCEPT !.details = Append(log, entry)] IN
              /\ migration_status' = ms1
              /\ loc' = [loc EXCEPT ![Poller].returned = AfterWrite(@, ms1, FALSE, FALSE)]
              /\ Goto(Updater, IF Len(ms1.details) > LogCap THEN "log_trim" ELSE "idle")
  /\ PollUnchanged

\* lines 218-219: the record is given a new list, the last 30 entries
U_LogTrim ==
  /\ pc[Updater] = "log_trim"
  /\ LET log == migration_status.details
         ms1 == [migration_status EXCEPT
                   !.details = SubSeq(log, Len(log) - LogCap + 1, Len(log))]
     IN  /\ migration_status' = ms1
         /\ loc' = [loc EXCEPT ![Poller].returned = AfterWrite(@, ms1, TRUE, FALSE)]
  /\ Goto(Updater, "idle")
  /\ PollUnchanged

\* update_disk_transfer_progress, lines 50-63: the record is given a new
\* disk_transfer dict
U_TransferUpdate(transfer_type) ==
  /\ pc[Updater] = "idle"
  /\ LET ms1 == [migration_status EXCEPT
                   !.disk_transfer = [active |-> TRUE, transfer_type |-> transfer_type]]
     IN  /\ migration_status' = ms1
         /\ loc' = [loc EXCEPT ![Poller].returned = AfterWrite(@, ms1, FALSE, TRUE)]
  /\ UNCHANGED pc
  /\ PollUnchanged

\* stop_disk_transfer_progress, lines 65-68: the dict is changed in place
U_TransferStop ==
  /\ pc[Updater] = "idle"
  /\ migration_status.disk_transfer.active
  /\ LET ms1 == [migration_status EXCEPT !.disk_transfer.active = FALSE]
     IN  /\ migration_status' = ms1
         /\ loc' = [loc EXCEPT ![Poller].returned = AfterWrite(@, ms1, FALSE, FALSE)]
  /\ UNCHANGED pc
  /\ PollUnchanged

\* get_migration_status: migration_status.copy(), returned to the endpoint
get_migration_status ==
  /\ pc[Poller] = "idle"
  /\ loc' = [loc EXCEPT ![Poller].returned =
                [polled |-> TRUE, value |-> migration_status,
                 at_return |-> migration_status,
                 details_shared |-> TRUE, transfer_shared |-> TRUE]]
  /\ Goto(Poller, "polled")
  /\ UNCHANGED migration_status
  /\ PollUnchanged

NextPoll ==
  \/ \E c \in TrackerCalls : U_Call(c)
  \/ U_WriteStep \/ U_WriteStage \/ U_WriteProgress \/ U_WriteMessage
  \/ U_LogAppend \/ U_LogTrim
  \/ \E transfer_type \in TransferTypes : U_TransferUpdate(transfer_type)
  \/ U_TransferStop
  \/ get_migration_status

SpecPoll == InitPoll /\ [][NextPoll]_vars

(***************************************************************************)
(* update_migration_status as a function of the log and its arguments:     *)
(* the record is the one a run has after 0..MaxReplay updates, and one     *)
(* call is applied to it with any of the steps of lines 26-53, with or     *)
(* without a details text, and any of a few in-stage percentages.  The     *)
(* arguments of the call are kept in the caller's locals.                  *)
(***************************************************************************)
MaxReplay == 8

DedupSteps == {TrackerCallSeq[i].step : i \in 1..Len(TrackerCallSeq)} \cup {"initializing"}
DedupProgress == {0, 300, 500, 700, 1000}

InitDedup ==
  /\ pc = [t \in Threads |-> "idle"]
  /\ data = [t \in Threads |-> NoRequest]
  /\ loc = [t \in Threads |-> NoLocals]
  /\ dest_attached = {}
  /\ dest_vols = {}
  /\ dest_vms = {}
  /\ hist = [t \in Threads |-> NoHist]
  /\ src_vm = [exists |-> TRUE, status |-> "stopped",
               disks |-> [s \in {"scsi0"} |-> FileDisk(0)]]
  /\ \E n \in 0..MaxReplay : migration_status = StatusAfter(n)

\* update_migration_status(step, message=Msg(step), details=details,
\* stage_progress=sp10/10), the whole call
ApplyCall(step, details, sp10) ==
  /\ loc[Updater].updates = 0
  /\ migration_status' =
       update_migration_status(migration_status, step, NoOverride, Msg(step),
                               details, sp10)
  /\ loc' = [loc EXCEPT
       ![Updater].updates = 1,
       ![Updater].call =
          [step |-> step, current_stage |-> StageOf(step),
           calculated_progress |->
              calculated_progress_of(migration_status, step, NoOverride, sp10),
           message |-> Msg(step), details |-> details]]
  /\ UNCHANGED <<pc, data, src_vm, dest_vms, dest_attached, dest_vols, hist>>

NextDedup ==
  \E step \in DedupSteps, sp10 \in DedupProgress :
    \E details \in {NoText, Details(step)} : ApplyCall(step, details, sp10)

SpecDedup == InitDedup /\ [][NextDedup]_vars

(***************************************************************************)
(* migrate_vm lines 143-227: from the source VM configuration to the       *)
(* arguments of the create call.  A configuration is a function from keys  *)
(* to values; keys and values are strings, written as tuples of            *)
(* characters so that prefixes, ':' and the appended suffix are what they  *)
(* are in the code.                                                         *)
(***************************************************************************)
K_name == <<"n", "a", "m", "e">>
K_hostname == <<"h", "o", "s", "t", "n", "a", "m", "e">>
K_meta == <<"m", "e", "t", "a">>
K_digest == <<"d", "i", "g", "e", "s", "t">>
K_vmgenid == <<"v", "m", "g", "e", "n", "i", "d">>
K_scsihw == <<"s", "c", "s", "i", "h", "w">>
K_scsi0 == <<"s", "c", "s", "i", "0">>
K_ide2 == <<"i", "d", "e", "2">>
K_efidisk0 == <<"e", "f", "i", "d", "i", "s", "k", "0">>
K_net0 == <<"n", "e", "t", "0">>
K_memory == <<"m", "e", "m", "o", "r", "y">>

\* line 151
DiskPrefixes ==
  { <<"s", "c", "s", "i">>,
    <<"v", "i", "r", "t", "i", "o">>,
    <<"i", "d", "e">>,
    <<"s", "a", "t", "a">>,
    <<"e", "f", "i", "d", "i", "s", "k">>,
    <<"t", "p", "m", "s", "t", "a", "t", "e">> }

MigratedSuffix == <<"-", "m", "i", "g", "r", "a", "t", "e", "d">>

\* the values a source configuration can give to a key
ConfigValues ==
  [k \in {K_name, K_hostname, K_meta, K_digest, K_vmgenid, K_scsihw, K_scsi0,
          K_ide2, K_efidisk0, K_net0, K_memory} |->
    CASE k = K_name -> {<<"w", "e", "b">>}
      [] k = K_hostname -> {<<"w", "e", "b">>}
      [] k = K_meta -> {<<"c", "=", "1">>}
      [] k = K_digest -> {<<"a", "b", "1", "2">>}
      [] k = K_vmgenid -> {<<"f", "0", "-", "1">>}
      [] k = K_scsihw -> {<<"l", "s", "i">>}
      [] k = K_scsi0 -> {<<"p", ":", "d", "0">>}
      [] k = K_ide2 -> {<<"n", "o", "n", "e", ",", "c", "d">>,
                        <<"p", ":", "x", ".", "i", "s", "o">>}
      [] k = K_efidisk0 -> {<<"p", ":", "d", "1">>}
      [] k = K_net0 -> {<<"e", "=", "A", ":", "B">>}
      [] k = K_memory -> {<<"5", "1", "2">>}]

\* every configuration over a subset of the keys; a VM always has memory
VmConfigs ==
  {[k \in keys |-> IF k = K_ide2 THEN ide2 ELSE CHOOSE v \in ConfigValues[k] : TRUE] :
     keys \in {ks \in SUBSET DOMAIN ConfigValues : K_memory \in ks},
     ide2 \in ConfigValues[K_ide2]}

\* str.startswith
StartsWith(str, prefix) ==
  Len(str) >= Len(prefix) /\ SubSeq(str, 1, Len(prefix)) = prefix

\* ':' in str(value)
HasColon(value) == \E i \in 1..Len(value) : value[i] = ":"

\* line 151: the entries that are separated as disks
IsDiskEntry(key, value) ==
  (\E prefix \in DiskPrefixes : StartsWith(key, prefix)) /\ HasColon(value)

Without(c, keys) == [k \in DOMAIN c \ keys |-> c[k]]

\* lines 146-156
vm_config_without_disks(vm_config) ==
  Without(vm_config, {k \in DOMAIN vm_config : IsDiskEntry(k, vm_config[k])})

\* the same with digest left in place
create_config_KeepsDigest(vm_config) ==
  LET stripped == Without(vm_config_without_disks(vm_config), {K_meta, K_vmgenid})
  IN  IF K_name \in DOMAIN stripped
      THEN [stripped EXCEPT ![K_name] = @ \o MigratedSuffix]
      ELSE IF K_hostname \in DOMAIN stripped
      THEN [stripped EXCEPT ![K_hostname] = @ \o MigratedSuffix]
      ELSE stripped

\* lines 212-227: the keyword arguments of qemu.create besides vmid
create_config(vm_config) ==
  LET stripped == Without(vm_config_without_disks(vm_config),
                          {K_meta, K_digest, K_vmgenid})
  IN  IF K_name \in DOMAIN stripped
      THEN [stripped EXCEPT ![K_name] = @ \o MigratedSuffix]
      ELSE IF K_hostname \in DOMAIN stripped
      THEN [stripped EXCEPT ![K_hostname] = @ \o MigratedSuffix]
      ELSE stripped

InitConfig ==
  /\ pc = [t \in Threads |-> "idle"]
  /\ data = [t \in Threads |-> NoRequest]
  /\ dest_attached = {}
  /\ dest_vols = {}
  /\ dest_vms = {}
  /\ hist = [t \in Threads |-> NoHist]
  /\ migration_status = InitStatus
  /\ src_vm = [exists |-> TRUE, status |-> "stopped",
               disks |-> [s \in {"scsi0"} |-> FileDisk(0)]]
  /\ \E c \in VmConfigs :
       loc = [t \in Threads |->
                IF t = Updater THEN [NoLocals EXCEPT !.vm_config = c] ELSE NoLocals]

\* lines 146-227 applied to the configuration that config.get() returned
PrepareCreate ==
  /\ pc[Updater] = "idle"
  /\ loc' = [loc EXCEPT ![Updater].create_config = create_config(loc[Updater].vm_config)]
  /\ Goto(Updater, "create_vm")
  /\ UNCHANGED <<migration_status, data, src_vm, dest_vms, dest_attached,
                 dest_vols, hist>>

NextConfig == PrepareCreate

SpecConfig == InitConfig /\ [][NextConfig]_vars

(***************************************************************************)
(* migrate_vm lines 294-324: the size passed to the disk create call, from *)
(* the size= option of the source disk.                                    *)
(***************************************************************************)
Max(a, b) == IF a >= b THEN a ELSE b

KiB == 1024
MiB == 1024 * 1024
GiB == 1024 * 1024 * 1024

Size(num, unit) == [num |-> num, unit |-> unit]

\* the numbers and unit letters of the size options tried; "x" is a text
\* that is neither a number nor a number with a unit
SizeNumbers ==
  {0, 1, 50, 1023, 1024, 1025, 2048, 4096, 1048575, 1048576, 1048577,
   2097152, 3000000, 1073741823, 1073741824, 2000000000}
SizeUnits == {"K", "M", "G", "T", "", "x"}
RawSizes == {Size(n, u) : n \in SizeNumbers, u \in SizeUnits} \cup {NoSizeOption}

\* the same with kilobytes rounded down
normalise_size_RoundsDown(raw_size) ==
  IF raw_size = NoSizeOption THEN Size(20, "G")
  ELSE IF raw_size.unit = "K" THEN Size(Max(1, raw_size.num \div KiB), "M")
  ELSE IF raw_size.unit \in {"M", "G", "T"} THEN raw_size
  ELSE IF raw_size.unit = ""
  THEN IF raw_size.num < MiB THEN Size(Max(1, (raw_size.num + MiB - 1) \div MiB), "M")
       ELSE IF raw_size.num < GiB THEN Size(raw_size.num \div MiB, "M")
       ELSE Size(Max(1, raw_size.num \div GiB), "G")
  ELSE Size(20, "G")

\* the same with a bare number read as kilobytes
normalise_size_BareIsKilobytes(raw_size) ==
  IF raw_size = NoSizeOption THEN Size(20, "G")
  ELSE IF raw_size.unit \in {"K", ""}
  THEN Size(Max(1, (raw_size.num + KiB - 1) \div KiB), "M")
  ELSE IF raw_size.unit \in {"M", "G", "T"} THEN raw_size
  ELSE Size(20, "G")

\* lines 295-324
normalise_size(raw_size) ==
  IF raw_size = NoSizeOption THEN Size(20, "G")
  ELSE IF raw_size.unit = "K"
  THEN Size(Max(1, (raw_size.num + KiB - 1) \div KiB), "M")
  ELSE IF raw_size.unit \in {"M", "G", "T"} THEN raw_size
  ELSE IF raw_size.unit = ""
  THEN IF raw_size.num < MiB THEN Size(Max(1, (raw_size.num + MiB - 1) \div MiB), "M")
       ELSE IF raw_size.num < GiB THEN Size(raw_size.num \div MiB, "M")
       ELSE Size(Max(1, raw_size.num \div GiB), "G")
  ELSE Size(20, "G")

InitSize ==
  /\ pc = [t \in Threads |-> "idle"]
  /\ data = [t \in Threads |-> NoRequest]
  /\ dest_attached = {}
  /\ dest_vols = {}
  /\ dest_vms = {}
  /\ hist = [t \in Threads |-> NoHist]
  /\ migration_status = InitStatus
  /\ src_vm = [exists |-> TRUE, status |-> "stopped",
               disks |-> [s \in {"scsi0"} |-> FileDisk(0)]]
  /\ \E raw_size \in RawSizes :
       loc = [t \in Threads |->
                IF t = Updater THEN [NoLocals EXCEPT !.raw_size = raw_size]
                ELSE NoLocals]

\* lines 295-324 applied to the size option of the disk in hand
ExtractSize ==
  /\ pc[Updater] = "idle"
  /\ loc' = [loc EXCEPT ![Updater].size = normalise_size(loc[Updater].raw_size)]
  /\ Goto(Updater, "disk_create")
  /\ UNCHANGED <<migration_status, data, src_vm, dest_vms, dest_attached,
                 dest_vols, hist>>

NextSize == ExtractSize

SpecSize == InitSize /\ [][NextSize]_vars


(***************************************************************************)
(* Destination volume names.  The name of a created volume takes its       *)
(* number from the source file name when the source volume id has a path   *)
(* ("<storage>:<vmid>/vm-<vmid>-disk-<n>.<ext>") and from the digits of    *)
(* the slot otherwise; two source storages can each hold a file with the   *)
(* same number.  One run alone, stopped source VM, empty destination, over *)
(* every such pair of disks and every storage mapping.                     *)
(***************************************************************************)
DiskNumbers == {0, 1}

\* a file or block volume with any number in its name, or a file whose name
\* has no -disk-<n> segment
NamedDisks(s) ==
  {FileDisk(n) : n \in DiskNumbers} \cup {BlockDisk(n) : n \in DiskNumbers}
  \cup {FileDisk(-1)}

InitNames ==
  /\ migration_status = InitStatus
  /\ pc = [t \in Threads |-> "idle"]
  /\ data = [t \in Threads |-> NoRequest]
  /\ loc = [t \in Threads |-> NoLocals]
  /\ \E c \in [Slots -> UNION {NamedDisks(s) : s \in Slots}] :
       /\ \A s \in Slots : c[s] \in NamedDisks(s)
       /\ src_vm = [exists |-> TRUE, status |-> "stopped", disks |-> c]
  /\ dest_vms = {}
  /\ dest_attached = {}
  /\ dest_vols = {}
  /\ hist = [t \in Threads |-> NoHist]

NamesRequest(t) ==
  /\ \A u \in Threads : pc[u] = "idle"
  /\ \E m \in Mappings :
       migrate_vm_endpoint(t, [complete |-> TRUE, storage_mappings |-> m])

NextNames ==
  \/ \E t \in Threads : NamesRequest(t)
  \/ \E t \in Threads : Worker(t)

SpecNames == InitNames /\ [][NextNames]_vars


(***************************************************************************)
(* disk_service.copy_disk_data, step by step, for one disk: the file-based *)
(* branch (copy_file_based_storage) and the block-based branch             *)
(* (copy_block_based_storage), chosen by the type of the SOURCE storage.   *)
(* The copy runs on the thread Updater; when it raises, the run ends in    *)
(* error and a next run may start.                                         *)
(***************************************************************************)
MaxAvailGb == 12
SourceSizes10 == {5, 15, 99}
ImageFormats == {"qcow2", "raw", "vmdk"}
base_progress == 70

\* the disks a copy can be asked for, and the answers of the two hosts
CopyInputs ==
  {[NoCopy EXCEPT !.branch = b, !.num = n, !.format = f, !.data_vmid = v,
                  !.size10 = z, !.ls = l, !.df = d, !.avail_gb = a] :
     b \in {"file", "block"}, n \in DiskNumbers \cup {-1}, f \in ImageFormats,
     v \in {SrcVmid, SrcVmid + 1}, z \in SourceSizes10,
     l \in {"ok", "bad_int", "short"}, d \in {"ok", "unparsable", "error"},
     a \in {0, 1, MaxAvailGb - 1, MaxAvailGb}}

WellFormedCopy(c) ==
  /\ c.branch = "block" => c.format = "raw" /\ c.ls = "ok" /\ c.df = "ok" /\ c.num >= 0
  /\ c.df # "ok" => c.avail_gb = 0

InitCopy ==
  /\ pc = [t \in Threads |-> IF t = Updater THEN "copy_locate" ELSE "idle"]
  /\ data = [t \in Threads |-> IF t = Updater THEN RaceRequest ELSE NoRequest]
  /\ dest_attached = {}
  /\ dest_vols = {}
  /\ dest_vms = {}
  /\ hist = [t \in Threads |-> NoHist]
  /\ migration_status =
       Publish([InitStatus EXCEPT !.active = TRUE, !.vmid = SrcVmid,
                                  !.current_disk = 1, !.total_disks = 1],
               "disk_copying", 700)
  /\ src_vm = [exists |-> TRUE, status |-> "stopped",
               disks |-> [s \in {"scsi0"} |-> FileDisk(0)]]
  /\ \E c \in CopyInputs :
       /\ WellFormedCopy(c)
       /\ loc = [t \in Threads |->
                   IF t = Updater THEN [NoLocals EXCEPT !.copy = c] ELSE NoLocals]

\* update_migration_status(step, current_progress + k, message)
CopyPublish(ms, step, k) == PublishAt(ms, step, base_progress + k)

\* update_disk_transfer_progress, lines 50-63
TransferStarted(ms, transfer_type) ==
  [ms EXCEPT !.disk_transfer = [active |-> TRUE, transfer_type |-> transfer_type]]

\* stop_disk_transfer_progress, lines 65-68
TransferStopped(ms) == [ms EXCEPT !.disk_transfer.active = FALSE]

\* an exception leaves copy_disk_data (lines 339-344, 793-807, 1109-1111)
CopyRaise(t, ms) ==
  /\ migration_status' = ms
  /\ Goto(t, "copy_failed")
  /\ UNCHANGED loc

\* lines 463-470: the size of the source file in GiB; 10 when the size
\* column of ls is no number
source_file_size10(c) == IF c.ls = "bad_int" THEN 100 ELSE c.size10

\* check_disk_space, lines 228-261: int(required_size_gb * 1.2); TRUE when
\* df cannot be run or read
check_disk_space(c) ==
  IF c.df = "ok" THEN c.avail_gb >= (source_file_size10(c) * 12) \div 100 ELSE TRUE

\* the name of the upload: the source file name with ".raw" appended
\* (lines 472-476 and 925-927)
UploadName(c) ==
  [vmid |-> SrcVmid, num |-> c.num,
   exts |-> IF c.branch = "file" THEN <<c.format, "raw">> ELSE <<"raw">>]

\* lines 690-717 and 1014-1031: vm-<data['vmid']>-disk-<n>.qcow2, n being
\* the text after disk- without ".raw" and ".qcow2"
RenamedName(c) ==
  [vmid |-> c.data_vmid, num |-> c.num,
   exts |-> SelectSeq(UploadName(c).exts, LAMBDA e : e \notin {"raw", "qcow2"})
            \o <<"qcow2">>]

\* lines 357-470 and 480-582 (file), 811-913 (block): locate the source,
\* size it, choose the destination path, announce the download
CopyLocate(t) ==
  /\ pc[t] = "copy_locate"
  /\ LET c == loc[t].copy IN
     \E found \in {"direct", "fallback", "none"}, is_block \in BOOLEAN,
        dd_ok \in BOOLEAN, stat_ok \in BOOLEAN, conn_ok \in BOOLEAN :
       IF c.branch = "file"
       THEN LET ms1 == Publish(Publish(migration_status, "disk_detecting_type", 750),
                               "disk_locating", 780)
                ms2 == IF found = "direct" THEN Publish(ms1, "disk_found", 800)
                       ELSE IF found = "fallback"
                       THEN Publish(Publish(ms1, "disk_searching", 790),
                                    "disk_found_fallback", 820)
                       ELSE Publish(ms1, "disk_searching", 790)
                ms3 == Publish(ms2, "disk_size_check", 830)
            IN  IF found = "none" THEN CopyRaise(t, ms2)
                ELSE IF ~conn_ok \/ c.ls = "short" THEN CopyRaise(t, ms3)
                ELSE /\ migration_status' = ms3
                     /\ Goto(t, "copy_space")
                     /\ UNCHANGED loc
       ELSE LET ms1 == CopyPublish(CopyPublish(migration_status, "disk_detecting_block", 1),
                                   "disk_locating_block", 2)
                ms2 == CopyPublish(CopyPublish(ms1, "disk_found_block", 3),
                                   "disk_type_detected", 4)
                ms3 == CopyPublish(CopyPublish(ms2, "disk_temp_create", 5),
                                   "disk_dd_start", 6)
                ms4 == CopyPublish(CopyPublish(CopyPublish(ms3, "disk_temp_created", 10),
                                               "disk_transfer_start", 11),
                                   "disk_downloading_block", 12)
            IN  IF found = "none" THEN CopyRaise(t, ms1)
                ELSE IF ~is_block THEN CopyRaise(t, ms2)
                ELSE IF ~dd_ok THEN CopyRaise(t, ms3)
                ELSE IF ~stat_ok THEN CopyRaise(t, ms4)
                ELSE /\ migration_status' = TransferStarted(ms4, "download")
                     /\ Goto(t, "downloading")
                     /\ UNCHANGED loc
  /\ UNCHANGED <<data, src_vm, dest_vms, dest_attached, dest_vols, hist>>

\* lines 576-633 (file): free space, destination directory, announce the
\* download
CopySpaceCheck(t) ==
  /\ pc[t] = "copy_space"
  /\ LET c == loc[t].copy IN
     \E mkdir_ok \in BOOLEAN, stat_ok \in BOOLEAN :
       LET ms1 == CopyPublish(migration_status, "disk_dest_prep", 6)
           ms2 == Publish(CopyPublish(ms1, "disk_download_start", 7),
                          "disk_downloading", 850)
       IN  IF ~check_disk_space(c) THEN CopyRaise(t, migration_status)
           ELSE IF ~mkdir_ok THEN CopyRaise(t, ms1)
           ELSE IF ~stat_ok THEN CopyRaise(t, ms2)
           ELSE /\ migration_status' = TransferStarted(ms2, "download")
                /\ loc' = [loc EXCEPT ![t].copy.checked = TRUE]
                /\ Goto(t, "downloading")
  /\ UNCHANGED <<data, src_vm, dest_vms, dest_attached, dest_vols, hist>>

\* lines 637-677 (file), 915-1005 (block): sftp.get to the local staging
\* file, then the connection to the destination and the announcement of
\* the upload
CopyDownload(t) ==
  /\ pc[t] = "downloading"
  /\ LET c == loc[t].copy IN
     \E get_ok \in BOOLEAN, conn_ok \in BOOLEAN :
       LET ms1 == TransferStopped(migration_status)
           ms2 == IF c.branch = "file"
                  THEN CopyPublish(CopyPublish(ms1, "disk_download_complete", 12),
                                   "disk_upload_start", 13)
                  ELSE CopyPublish(CopyPublish(ms1, "disk_download_complete_block", 16),
                                   "disk_dest_prep_block", 17)
           ms3 == IF c.branch = "file" THEN Publish(ms2, "disk_uploading", 900)
                  ELSE CopyPublish(ms2, "disk_upload_start_block", 18)
       IN  IF ~get_ok THEN CopyRaise(t, migration_status)
           ELSE IF ~conn_ok
           THEN /\ migration_status' = ms2
                /\ loc' = [loc EXCEPT ![t].copy.downloaded = TRUE]
                /\ Goto(t, "copy_failed")
           ELSE /\ migration_status' = TransferStarted(ms3, "upload")
                /\ loc' = [loc EXCEPT ![t].copy.downloaded = TRUE]
                /\ Goto(t, "uploading")
  /\ UNCHANGED <<data, src_vm, dest_vms, dest_attached, dest_vols, hist>>

\* lines 771-791 and 1069-1095: the end of a copy that did not raise
CopyReturns(ms, c) ==
  IF c.branch = "file"
  THEN CopyPublish(CopyPublish(ms, "disk_upload_complete", 18), "disk_cleanup", 19)
  ELSE CopyPublish(CopyPublish(ms, "disk_upload_complete_block", 22),
                   "disk_cleanup_block", 23)

\* lines 682-717 and 762-766 (file), 1009-1031 (block): sftp.put
CopyUpload(t) ==
  /\ pc[t] = "uploading"
  /\ LET c == loc[t].copy IN
     \E put_ok \in BOOLEAN :
       IF ~put_ok THEN CopyRaise(t, migration_status)
       ELSE IF c.num < 0
       THEN /\ migration_status' = CopyReturns(TransferStopped(migration_status), c)
            /\ loc' = [loc EXCEPT ![t].copy.uploaded = TRUE,
                                  ![t].copy.dest_name = UploadName(c)]
            /\ Goto(t, "copied")
       ELSE /\ migration_status' = TransferStopped(migration_status)
            /\ loc' = [loc EXCEPT ![t].copy.uploaded = TRUE,
                                  ![t].copy.dest_name = UploadName(c)]
            /\ Goto(t, "rename")
  /\ UNCHANGED <<data, src_vm, dest_vms, dest_attached, dest_vols, hist>>

\* lines 719-726 and 1037-1041: dest_sftp.rename
CopyRename(t) ==
  /\ pc[t] = "rename"
  /\ LET c == loc[t].copy IN
     \E rename_ok \in BOOLEAN :
       IF rename_ok
       THEN /\ migration_status' = CopyReturns(migration_status, c)
            /\ loc' = [loc EXCEPT ![t].copy.dest_name = RenamedName(c),
                                  ![t].copy.rename_tried = @ \cup {"sftp"}]
            /\ Goto(t, "copied")
       ELSE /\ loc' = [loc EXCEPT ![t].copy.rename_tried = @ \cup {"sftp"}]
            /\ Goto(t, "rename_ssh")
            /\ UNCHANGED migration_status
  /\ UNCHANGED <<data, src_vm, dest_vms, dest_attached, dest_vols, hist>>

\* lines 727-756 (file) and 1042-1067 (block): mv over SSH.  A message on
\* stderr is logged in both branches; an exception of the SSH calls is
\* caught in the file branch and leaves the block branch.
CopyRenameSsh(t) ==
  /\ pc[t] = "rename_ssh"
  /\ LET c == loc[t].copy IN
     \E outcome \in {"ok", "stderr", "raises"} :
       IF outcome = "raises" /\ c.branch = "block"
       THEN /\ loc' = [loc EXCEPT ![t].copy.rename_tried = @ \cup {"ssh"}]
            /\ migration_status' = migration_status
            /\ Goto(t, "copy_failed")
       ELSE /\ migration_status' = CopyReturns(migration_status, c)
            /\ loc' = [loc EXCEPT ![t].copy.dest_name =
                                    IF outcome = "ok" THEN RenamedName(c) ELSE @,
                                  ![t].copy.rename_tried = @ \cup {"ssh"}]
            /\ Goto(t, "copied")
  /\ UNCHANGED <<data, src_vm, dest_vms, dest_attached, dest_vols, hist>>

\* migration_service.py lines 526-533 and 581-638: the copy returned
\* (disk_copied, completion) or raised (the run ends in error); neither
\* path touches disk_transfer
CopyEnds(t) ==
  /\ pc[t] \in {"copied", "copy_failed"}
  /\ migration_status' =
       IF pc[t] = "copied"
       THEN Completed(Publish(migration_status, "disk_copied", 950))
       ELSE ErrorStatus(migration_status, <<"Error during migration", "disk_copy">>)
  /\ loc' = [loc EXCEPT ![t].error_msg =
                IF pc[t] = "copied" THEN @ ELSE <<"Error during migration", "disk_copy">>]
  /\ Goto(t, "done")
  /\ UNCHANGED <<data, src_vm, dest_vms, dest_attached, dest_vols, hist>>

\* the next request, after the run has ended, and the start of its run
NextRunStart(t) ==
  /\ pc[Updater] = "done"
  /\ migrate_vm_endpoint(t, RaceRequest)

NextCopy ==
  \/ \E t \in Threads :
       \/ CopyLocate(t) \/ CopySpaceCheck(t) \/ CopyDownload(t) \/ CopyUpload(t)
       \/ CopyRename(t) \/ CopyRenameSsh(t) \/ CopyEnds(t)
  \/ \E t \in Threads : NextRunStart(t)
  \/ \E t \in Threads : Begin(t)

SpecCopy == InitCopy /\ [][NextCopy]_vars


(***************************************************************************)
(* Properties.                                                             *)
(***************************************************************************)
Ended(t) == pc[t] = "done"
FoundRunning(t) == loc[t].vm_status = "running"
Did(t, op, arg) == <<op, arg>> \in hist[t].calls
VmCreatedBy(t) == Did(t, "vm_create", "vm")
Failed(t) == loc[t].error_msg # <<>>
MappedPools(t) == {data[t].storage_mappings[s] : s \in DOMAIN data[t].storage_mappings}
DestTouched(t) ==
  \/ \E v \in dest_vms : v.by = t
  \/ \E op \in {"vm_create", "dest_vm_delete"} : Did(t, op, "vm")
  \/ \E s \in Slots, op \in {"create", "attach", "copy"} : Did(t, op, s)

\* every id the search can try was taken before the run
IdsExhausted ==
  \A i \in SrcVmid..(SrcVmid + max_attempts - 1) :
    \E v \in dest_vms : v.vmid = i /\ v.by = "pre"

\* the disks of the source config a request selects and the loop does not skip
Selected(t) ==
  {s \in DOMAIN src_vm.disks \cap DOMAIN data[t].storage_mappings : ~src_vm.disks[s].cdrom}

\* C1: when migrate_vm finds the source VM running, the step it takes at the
\* running-VM check publishes the step confirm_vm_stop with needs_confirmation
\* set and leaves the run waiting: it has not ended, no error handling has
\* begun and the source VM has not been stopped.
C1_RunningVmWaitsForConfirmation ==
  [][\A t \in Threads :
       (pc[t] = "check_running" /\ FoundRunning(t) /\ pc'[t] # pc[t])
         => /\ migration_status'.needs_confirmation
            /\ migration_status'.step = "confirm_vm_stop"
            /\ pc'[t] \notin {"done", "cleanup_vm", "cleanup_disks"}
            /\ src_vm'.status = "running"]_vars

\* C2: a source VM that a run found running is stopped only if the
\* confirmation flag was set during that run; in particular it is still
\* running when the run has ended without a confirmation.
C2_StopOnlyAfterConfirmation ==
  \A t \in Threads :
    (FoundRunning(t) /\ src_vm.status # "running") => hist[t].confirmed

C2_Witness ==
  \E t \in Threads :
    /\ Ended(t) /\ FoundRunning(t) /\ ~hist[t].confirmed
    /\ migration_status.step = "error"
    /\ src_vm.status = "running"

\* C3: a run that created the destination VM, failed afterwards and whose
\* cleanup calls all succeeded ends with step error, no destination VM with
\* the target id and no volume named vm-<target id>-disk-* in any pool of
\* the mapping.
C3_CleanupLeavesNothing ==
  \A t \in Threads :
    (Ended(t) /\ VmCreatedBy(t) /\ Failed(t) /\ ~hist[t].cleanup_faulted)
      => /\ migration_status.step = "error"
         /\ ~(\E v \in dest_vms : v.vmid = loc[t].target_vmid)
         /\ ~(\E v \in dest_vols : v.pool \in MappedPools(t)
                                   /\ v.vmid = loc[t].target_vmid)

\* the attach of a later disk failed after an earlier disk was copied
C3_Witness ==
  \E t \in Threads :
    /\ Ended(t) /\ VmCreatedBy(t) /\ ~hist[t].cleanup_faulted
    /\ loc[t].error_msg = <<"Error during migration", "disk_attach">>
    /\ Did(t, "copy", "scsi0") /\ Did(t, "create", "scsi1")
    /\ migration_status.step = "error"

\* C4: a run whose cleanup met a failing call still ends with step error,
\* active false and the message of the original failure.
C4_CleanupFailureKeepsOutcome ==
  \A t \in Threads :
    (Ended(t) /\ hist[t].cleanup_faulted)
      => /\ migration_status.step = "error"
         /\ ~migration_status.active
         /\ Failed(t)
         /\ migration_status.message = loc[t].error_msg
         /\ loc[t].error_msg[1] = "Error during migration"
         /\ loc[t].error_msg[2] \in {"no free VM id", "vm_create", "disk_create",
                                     "disk_attach", "disk_copy", "network_config_get",
                                     "network_config_put", "source_delete"}

C4_Witness ==
  \E t \in Threads :
    /\ Ended(t) /\ hist[t].cleanup_faulted /\ VmCreatedBy(t)
    /\ \E v \in dest_vms : v.vmid = loc[t].target_vmid /\ v.by = t
    /\ migration_status.message = <<"Error during migration", "disk_copy">>

\* C5: at most one workflow is executing at any time.
C5_AtMostOneWorkflow ==
  Cardinality({t \in Threads : Running(t)}) <= 1

C8_FaultFreeRunCompletes ==
  \A t \in Threads :
    (/\ Ended(t) /\ validate_migration_data(data[t]) /\ ~hist[t].faulted
     /\ Selected(t) # {} /\ ~IdsExhausted
     /\ loc[t].vm_status = "stopped" \/ (FoundRunning(t) /\ hist[t].confirmed))
      => /\ migration_status.step = "completed"
         /\ migration_status.progress = 100 * PDen
         /\ ~migration_status.active

\* C9: every run that has ended leaves the step completed or error.
C9_FinalStepCompletedOrError ==
  \A t \in Threads : Ended(t) => migration_status.step \in {"completed", "error"}

\* C10: a disk is created, attached or copied on the destination only for a
\* slot that is in the source config and a key of the storage mapping; and a
\* run of a valid request on a stopped VM without a failing call, with a
\* free id on the destination, does not end in error and has copied exactly
\* the selected disks.
C10_OnlySelectedDisksMigrated ==
  \A t \in Threads :
    /\ \A s \in Slots :
         (\E op \in {"create", "attach", "copy"} : Did(t, op, s))
           => s \in DOMAIN src_vm.disks /\ s \in DOMAIN data[t].storage_mappings
    /\ (/\ Ended(t) /\ validate_migration_data(data[t]) /\ ~hist[t].faulted
        /\ loc[t].vm_status = "stopped" /\ ~IdsExhausted)
         => /\ migration_status.step # "error"
            /\ \A op \in {"create", "attach", "copy"} :
                 {s \in Slots : Did(t, op, s)} = Selected(t)

\* source disks {scsi0, scsi1}, a mapping for scsi0 only: one disk migrated
C10_Witness ==
  \E t \in Threads :
    /\ Ended(t) /\ ~hist[t].faulted
    /\ DOMAIN src_vm.disks = {"scsi0", "scsi1"} /\ ~src_vm.disks["scsi1"].cdrom
    /\ DOMAIN data[t].storage_mappings = {"scsi0"}
    /\ {s \in Slots : Did(t, "copy", s)} = {"scsi0"}
    /\ migration_status.step = "completed"

\* the slots of a request that are both in the source config and mapped
PresentAndMapped(t) == DOMAIN src_vm.disks \cap DOMAIN data[t].storage_mappings
DiskOps == {"create", "attach", "copy"}
DiskCauses == {"disk_create", "disk_attach", "disk_copy"}

\* C11: a run that created the destination VM although no disk slot is both
\* in the source config and mapped has ended right after the creation: the
\* VM creation is the only call it made, no disk was created, attached or
\* copied, the step is not error and no failure was recorded.
C11_EmptyDiskSetCompletes ==
  \A t \in Threads :
    (VmCreatedBy(t) /\ PresentAndMapped(t) = {})
      => /\ Ended(t)
         /\ hist[t].calls = {<<"vm_create", "vm">>}
         /\ ~Failed(t)
         /\ migration_status.step # "error"
         /\ \E v \in dest_vms : v.vmid = loc[t].target_vmid /\ v.by = t

C11_Witness ==
  \E t \in Threads :
    /\ Ended(t) /\ VmCreatedBy(t)
    /\ DOMAIN src_vm.disks = {"scsi1"}
    /\ DOMAIN data[t].storage_mappings = {"scsi0"}
    /\ migration_status.step = "migration_complete"

\* C12: a run whose request misses a required field or has an empty
\* storage_mappings contacts neither control plane and opens no SSH
\* connection at any time, and ends with step error.
C12_InvalidRequestFailsFirst ==
  \A t \in Threads :
    (Running(t) \/ Ended(t)) /\ pc[t] # "begin" /\ ~validate_migration_data(data[t])
      => /\ hist[t].contacted = {}
         /\ hist[t].calls = {}
         /\ pc[t] \in {"validate", "done"}
         /\ Ended(t) => migration_status.step = "error"

C12_Witness ==
  \E t \in Threads :
    /\ Ended(t) /\ data[t].complete /\ DOMAIN data[t].storage_mappings = {}
    /\ migration_status.step = "error"
    /\ migration_status.message = <<"Error in migration process", "validation">>

\* C13: once the creation, attach or copy of a disk has failed, no disk
\* later in the loop is created, attached or copied, the run goes through
\* the compensating cleanup and ends with step error.
C13_DiskFailureAbortsRun ==
  \A t \in Threads :
    (Failed(t) /\ loc[t].error_msg[2] \in DiskCauses)
      => /\ loc[t].queue # <<>>
         /\ \A i \in 2..Len(loc[t].queue), op \in DiskOps : ~Did(t, op, loc[t].queue[i])
         /\ pc[t] \in {"cleanup_vm", "cleanup_disks", "done"}
         /\ Ended(t) => /\ migration_status.step = "error"
                        /\ Did(t, "dest_vm_delete", "vm") \/ hist[t].cleanup_faulted

\* the copy of scsi0 failed while scsi1 was still to come
C13_Witness ==
  \E t \in Threads :
    /\ Ended(t) /\ loc[t].error_msg = <<"Error during migration", "disk_copy">>
    /\ loc[t].queue = <<"scsi0", "scsi1">>
    /\ Did(t, "attach", "scsi0") /\ Did(t, "dest_vm_delete", "vm")
    /\ migration_status.step = "error"

IdInUse(i) == \E v \in dest_vms : v.vmid = i

\* C16: the id the search settles on is the smallest id from the requested
\* one upwards that no VM of the destination uses, reached with one
\* increment per id in use below it; and a search that fails has met
\* max_attempts ids in use in a row.
C16_SmallestFreeId ==
  \A t \in Threads :
    /\ pc[t] = "create_vm"
         => /\ loc[t].target_vmid >= SrcVmid
            /\ ~IdInUse(loc[t].target_vmid)
            /\ \A i \in SrcVmid..(loc[t].target_vmid - 1) : IdInUse(i)
            /\ loc[t].attempt = loc[t].target_vmid - SrcVmid
    /\ (Failed(t) /\ loc[t].error_msg[2] = "no free VM id")
         => \A i \in SrcVmid..(SrcVmid + max_attempts - 1) : IdInUse(i)


(***************************************************************************)
(* C17: within one run that ends in completed, the overall progress        *)
(* published by successive status updates never decreases.  The activity   *)
(* log is emptied when the run starts and keeps, in order, the whole-      *)
(* percent progress of the updates it records, so a later entry with a     *)
(* smaller value is a published decrease.                                   *)
(***************************************************************************)
LogNonDecreasing(log) ==
  \A i, j \in 1..Len(log) : i <= j => log[i].progress <= log[j].progress

C17_ProgressNeverDecreases ==
  migration_status.step = "completed" => LogNonDecreasing(migration_status.details)


(***************************************************************************)
(* C18: in every reachable state of the status record the overall          *)
(* progress is between 0 and 100 inclusive.                                 *)
(***************************************************************************)
C18_ProgressInRange ==
  migration_status.progress >= 0 /\ migration_status.progress <= 100 * PDen


C20_LogKeepsNewest ==
  [][LET old == migration_status.details
         new == migration_status'.details
         published == migration_status'.progress \div PDen
     IN  /\ Len(new) <= LogCap
         /\ \/ /\ new = old
               /\ \/ migration_status' = migration_status
                  \/ \E i \in 1..Len(old) :
                       /\ i > Len(old) - 3
                       /\ Abs(old[i].progress - published) <= 1
            \/ /\ Len(old) < LogCap
               /\ Len(new) = Len(old) + 1
               /\ SubSeq(new, 1, Len(old)) = old
            \/ /\ Len(old) = LogCap
               /\ Len(new) = LogCap
               /\ SubSeq(new, 1, LogCap - 1) = SubSeq(old, 2, LogCap)]_vars

\* a full log that has lost the entry of 'initializing', the first one of
\* the run
C20_Witness ==
  /\ Len(migration_status.details) = LogCap
  /\ \A i \in 1..LogCap :
       migration_status.details[i].message # Details("initializing")


(***************************************************************************)
(* C14: the value returned by get_migration_status is unaffected by any    *)
(* later status update: its activity log and its disk-transfer sub-record  *)
(* do not change after the call has returned.                              *)
(***************************************************************************)
C14_ReturnedCopyUnaffected ==
  \A t \in Threads :
    loc[t].returned.polled
      => /\ loc[t].returned.value.details = loc[t].returned.at_return.details
         /\ loc[t].returned.value.disk_transfer
              = loc[t].returned.at_return.disk_transfer

(***************************************************************************)
(* C15: a poller never observes a partially applied status update: the     *)
(* step, current stage, progress and message returned by one               *)
(* get_migration_status call all come from the same update_migration_      *)
(* status call.                                                             *)
(***************************************************************************)
FromOneCall(v) ==
  \E c \in TrackerCalls \cup {[step |-> "initializing", details |-> NoText, sp10 |-> 0]} :
    /\ v.step = c.step
    /\ v.current_stage = StageOf(c.step)
    /\ v.progress = calculate_stage_progress(StageOf(c.step), c.sp10)
    /\ v.message = Msg(c.step)

C15_NoPartialUpdateObserved ==
  \A t \in Threads :
    loc[t].returned.polled => FromOneCall(loc[t].returned.at_return)


(***************************************************************************)
(* C21: calling update_migration_status with a message identical to one of *)
(* the last 3 log entries and an overall percentage within 1 point of that *)
(* entry's does not grow the activity log, while step, progress and        *)
(* message of the status are still updated.                                *)
(* Recent(log) is the set of the last three entries; Suppressed(text) is   *)
(* the statement for a call whose compared text is text.                   *)
(***************************************************************************)
Recent(log) == {log[i] : i \in {j \in 1..Len(log) : j > Len(log) - 3}}

Suppressed(text) ==
  LET c == loc'[Updater].call IN
  (/\ loc[Updater].updates = 0 /\ loc'[Updater].updates = 1
   /\ \E e \in Recent(migration_status.details) :
        /\ e.message = text
        /\ Abs(e.progress * PDen - c.calculated_progress) <= PDen)
    => /\ migration_status'.details = migration_status.details
       /\ migration_status'.step = c.step
       /\ migration_status'.progress = c.calculated_progress
       /\ migration_status'.message = c.message

\* as stated: the message argument is the compared text
C21_DuplicateMessageSuppressed ==
  [][Suppressed(loc'[Updater].call.message)]_vars

\* amended: the compared text is the details argument when one is given,
\* the message argument otherwise
C21_DuplicateActivityTextSuppressed ==
  [][Suppressed(IF loc'[Updater].call.details # NoText
                THEN loc'[Updater].call.details
                ELSE loc'[Updater].call.message)]_vars

\* 'validation' published again at 3% while the log holds it at 4%: the
\* status moved to 3% and no entry at 3% was recorded
C21_Witness ==
  /\ loc[Updater].updates = 1
  /\ loc[Updater].call.step = "validation"
  /\ loc[Updater].call.details = NoText
  /\ migration_status.progress = 3 * PDen
  /\ [message |-> Msg("validation"), progress |-> 4] \in Recent(migration_status.details)
  /\ \A i \in 1..Len(migration_status.details) :
       migration_status.details[i] # [message |-> Msg("validation"), progress |-> 3]


(***************************************************************************)
(* C22: at the start of every run of migrate_vm, before any other step is  *)
(* published, the activity log is empty, current_disk and total_disks are  *)
(* 0, and needs_confirmation and stop_confirmed are false, whatever the    *)
(* previous run left behind.  The step that starts a run ends with the     *)
(* publication of 'initializing': after it the log holds that one entry.   *)
(***************************************************************************)
C22_RunStartsFromCleanRecord ==
  [][\A t \in Threads :
       (pc[t] = "begin" /\ pc'[t] # "begin")
         => /\ migration_status'.details =
                 <<[message |-> <<"details", "initializing">>, progress |-> 0]>>
            /\ migration_status'.step = "initializing"
            /\ migration_status'.current_disk = 0
            /\ migration_status'.total_disks = 0
            /\ ~migration_status'.needs_confirmation
            /\ ~migration_status'.stop_confirmed]_vars

\* the second run has started after a first run that copied its disk and
\* was sent a confirmation
C22_Witness ==
  /\ pc[ThreadOrder[1]] = "done"
  /\ Did(ThreadOrder[1], "copy", "scsi0")
  /\ hist[ThreadOrder[1]].confirmed
  /\ pc[ThreadOrder[2]] = "validate"
  /\ Len(migration_status.details) = 1
  /\ migration_status.total_disks = 0
  /\ ~migration_status.stop_confirmed


(***************************************************************************)
(* C23: the configuration passed to the destination VM create call         *)
(* contains none of meta, digest and vmgenid and no entry classified as a  *)
(* disk slot, and its name (or, when it has no name, its hostname) is the  *)
(* source value with -migrated appended.  Every other entry of the source  *)
(* configuration is passed as it is.                                       *)
(***************************************************************************)
C23_CreateConfigStripped ==
  LET src == loc[Updater].vm_config
      cfg == loc[Updater].create_config
      renamed == IF K_name \in DOMAIN src THEN {K_name}
                 ELSE IF K_hostname \in DOMAIN src THEN {K_hostname} ELSE {}
  IN  pc[Updater] = "create_vm"
        => /\ DOMAIN cfg \cap {K_meta, K_digest, K_vmgenid} = {}
           /\ \A k \in DOMAIN cfg : ~IsDiskEntry(k, cfg[k])
           /\ \A k \in renamed : cfg[k] = src[k] \o MigratedSuffix
           /\ \A k \in DOMAIN cfg \ renamed : k \in DOMAIN src /\ cfg[k] = src[k]

\* a configuration with a name, a hostname, the three stripped keys, a
\* disk, a CD-ROM drive without medium and a network device
C23_Witness ==
  /\ pc[Updater] = "create_vm"
  /\ {K_name, K_hostname, K_meta, K_digest, K_vmgenid, K_scsi0, K_scsihw, K_net0,
      K_ide2} \subseteq DOMAIN loc[Updater].vm_config
  /\ loc[Updater].vm_config[K_ide2] = <<"n", "o", "n", "e", ",", "c", "d">>
  /\ DOMAIN loc[Updater].create_config
       = {K_name, K_hostname, K_scsihw, K_ide2, K_net0, K_memory}
  /\ loc[Updater].create_config[K_name] = <<"w", "e", "b", "-", "m", "i", "g", "r", "a", "t", "e", "d">>


C25_TwoMebibytesGiveOneM ==
  (pc[Updater] = "disk_create" /\ loc[Updater].raw_size = Size(2097152, ""))
    => loc[Updater].size = Size(1, "M")

\* amended: 2097152 bytes are 2 MiB and give "2M"; a bare byte count below
\* 1 MiB is rounded up to "1M"
C25_ByteCountInWholeMegabytes ==
  LET raw == loc[Updater].raw_size
      size == loc[Updater].size
  IN  (pc[Updater] = "disk_create" /\ raw.unit = "")
        => /\ raw.num = 2097152 => size = Size(2, "M")
           /\ raw.num < MiB => size = Size(1, "M")

C25_Witness ==
  /\ pc[Updater] = "disk_create"
  /\ loc[Updater].raw_size = Size(2097152, "")
  /\ loc[Updater].size = Size(2, "M")


(***************************************************************************)
(* C26: compensating cleanup deletes a destination VM, and volumes named   *)
(* vm-<id>-disk-, only for a VM id under which this run's VM create call   *)
(* succeeded; a failure before the VM was created (including exhausting    *)
(* the 100 id probes or a failing create call) deletes nothing on the      *)
(* destination.                                                             *)
(***************************************************************************)
C26_CleanupOnlyForOwnVm ==
  [][\A t \in Threads :
       (pc[t] \in {"cleanup_vm", "cleanup_disks"} /\ pc'[t] # pc[t])
         => /\ \A v \in dest_vms \ dest_vms' : v.by = t
            /\ \A x \in dest_vols \ dest_vols' :
                 VmCreatedBy(t) /\ x.vmid = loc[t].target_vmid
            /\ ~VmCreatedBy(t)
                 => /\ dest_vms' = dest_vms
                    /\ dest_vols' = dest_vols
                    /\ dest_attached' = dest_attached]_vars

\* the same for runs in which every probe of the id search was answered
C26_CleanupOnlyForOwnVm_ProbesAnswered ==
  [][\A t \in Threads :
       (pc[t] = "cleanup_vm" /\ pc'[t] # pc[t] /\ ~hist[t].faulted)
         => \A v \in dest_vms \ dest_vms' : v.by = t]_vars


(***************************************************************************)
(* C27: within one run, two different migrated disk slots mapped to the    *)
(* same destination storage never get the same destination volume name,    *)
(* and the removal of colliding volumes that precedes each disk creation   *)
(* never deletes a volume that this run created, attached and filled for   *)
(* an earlier disk.                                                        *)
(***************************************************************************)
C27_DiskNamesDistinct ==
  [][/\ \A a, b \in dest_attached' :
          (a.vmid = b.vmid /\ a.slot # b.slot) => a.vol # b.vol
     /\ \A t \in Threads :
          (pc[t] = "disk_create" /\ pc'[t] # pc[t])
            => \A x \in dest_vols \ dest_vols' :
                 ~\E a \in dest_attached :
                     /\ a.vol = x
                     /\ a.slot # loc[t].cur
                     /\ Did(t, "copy", a.slot)]_vars


\* the volume the destination VM of run t has in a slot, still there and
\* shared with no other slot
HoldsDisk(t, s) ==
  \E a \in dest_attached :
    /\ a.vmid = loc[t].target_vmid /\ a.slot = s
    /\ a.vol \in dest_vols
    /\ \A b \in dest_attached : (b.vmid = a.vmid /\ b.slot # s) => b.vol # a.vol

\* the destination VM of run t exists with every migrated disk copied
DestinationComplete(t) ==
  /\ VmCreatedBy(t)
  /\ DestVmOnNode(loc[t].target_vmid)
  /\ \A s \in Selected(t) : Did(t, "copy", s) /\ HoldsDisk(t, s)

(***************************************************************************)
(* C28: at every point of every run the source VM exists or the            *)
(* destination VM exists with every migrated disk copied; the source VM is *)
(* deleted only by the source deletion of a run whose migrated disks were  *)
(* all copied; and once the source VM is deleted no destination VM is      *)
(* removed.                                                                *)
(***************************************************************************)
C28_SourceOrDestinationExists ==
  [][/\ src_vm'.exists \/ \E t \in Threads : DestinationComplete(t)'
     /\ (src_vm.exists /\ ~src_vm'.exists)
          => \E t \in Threads :
               /\ pc[t] = "finish"
               /\ Did(t, "source_delete", "vm")'
               /\ \A s \in Selected(t) : Did(t, "copy", s)
     /\ ~src_vm.exists => dest_vms \subseteq dest_vms']_vars


(***************************************************************************)
(* C29: whenever a run of migrate_vm has ended, by success, by error or    *)
(* with no disk to migrate, the active flag of the status record is false. *)
(***************************************************************************)
C29_EndedRunIsInactive ==
  \A t \in Threads : Ended(t) => ~migration_status.active


(***************************************************************************)
(* C30: the destination VM is created before any destination disk; each    *)
(* migrated disk is created, then attached, then copied; and the           *)
(* processing of a disk begins only after every disk begun before it has   *)
(* been copied.                                                            *)
(***************************************************************************)
C30_DiskStepsInOrder ==
  [][\A t \in Threads : \A s \in Slots :
       LET Now(op)  == Did(t, op, s) IN
       /\ (loc[t].cur # s /\ loc'[t].cur = s)
            => /\ VmCreatedBy(t)
               /\ \A q \in Slots \ {s} :
                    (\E op \in DiskOps : Did(t, op, q)) => Did(t, "copy", q)
       /\ (~Now("create") /\ Did(t, "create", s)')
            => VmCreatedBy(t) /\ loc[t].cur = s /\ ~Now("attach") /\ ~Now("copy")
       /\ (~Now("attach") /\ Did(t, "attach", s)')
            => Now("create") /\ loc[t].cur = s /\ ~Now("copy")
       /\ (~Now("copy") /\ Did(t, "copy", s)')
            => Now("create") /\ Now("attach") /\ loc[t].cur = s]_vars

\* both disks of a VM went through create, attach and copy
C30_Witness ==
  \E t \in Threads :
    \A s \in Slots : \A op \in DiskOps : Did(t, op, s)


\* the volumes the orphan search of run t looks for
OrphansOf(t) ==
  {v \in dest_vols : /\ v.pool \in storages_to_check(data[t].storage_mappings)
                     /\ v.vmid = loc[t].target_vmid}

(***************************************************************************)
(* C31 as stated: during compensating cleanup, volumes named               *)
(* vm-<vmid>-disk- are enumerated and deleted per storage only when the    *)
(* deletion of the destination VM failed.                                  *)
(***************************************************************************)
C31_OrphanSearchOnlyAfterFailedDelete ==
  [][\A t \in Threads :
       (pc[t] = "cleanup_disks" /\ dest_vols' # dest_vols)
         => ~Did(t, "dest_vm_delete", "vm")]_vars

(***************************************************************************)
(* C31 amended: the per-storage enumeration and deletion of volumes named  *)
(* vm-<vmid>-disk- follows the attempt to delete the destination VM in     *)
(* every cleanup, whether the deletion succeeded or failed; after a        *)
(* successful deletion, when the calls of the search succeed, no such      *)
(* volume is left on the storages it visits.                               *)
(***************************************************************************)
C31_OrphanSearchAfterEveryDelete ==
  [][\A t \in Threads :
       /\ (pc[t] = "cleanup_vm" /\ pc'[t] # pc[t]) => pc'[t] = "cleanup_disks"
       /\ (pc[t] = "cleanup_disks" /\ pc'[t] # pc[t]
            /\ Did(t, "dest_vm_delete", "vm") /\ ~hist'[t].cleanup_faulted)
            => OrphansOf(t)' = {}]_vars

\* the VM deletion succeeded and the search is about to remove a volume
C31_Witness ==
  \E t \in Threads :
    /\ pc[t] = "cleanup_disks"
    /\ Did(t, "dest_vm_delete", "vm")
    /\ OrphansOf(t) # {}


\* run t is past the running-VM check and has not ended
PastWait(t) ==
  pc[t] \notin {"idle", "begin", "validate", "connect_source", "vm_info",
                "check_running", "done"}

(***************************************************************************)
(* C32: after the confirmation wait has been passed, clearing the active   *)
(* flag does not stop the workflow: with the flag cleared the run still    *)
(* has a next step to take until it ends, and it ends with the step        *)
(* completed or error.                                                     *)
(***************************************************************************)
C32_CancelDoesNotStopRun ==
  \A t \in Threads :
    /\ (PastWait(t) /\ ~migration_status.active) => ENABLED Worker(t)
    /\ (Ended(t) /\ loc[t].vm_status = "stopped" /\ "ssh" \in hist[t].contacted)
         => migration_status.step \in {"completed", "error"}

\* the part of C32 that does not depend on the final step
C32_CancelledRunGoesOn ==
  \A t \in Threads :
    (PastWait(t) /\ ~migration_status.active) => ENABLED Worker(t)


(***************************************************************************)
(* C33: the numeric suffix of the destination disk name equals the number  *)
(* in the -disk-<n> segment of the source file name whenever that segment  *)
(* is present and numeric, and is taken from the digits of the slot name   *)
(* only when it is not.                                                    *)
(***************************************************************************)
C33_SuffixFromSourceName ==
  [][\A t \in Threads : \A s \in Slots :
       (~Did(t, "create", s) /\ Did(t, "create", s)')
         => LET d == loc[t].disk_configs[s] IN
            loc'[t].disk_name.num =
              IF d.name_num >= 0 THEN d.name_num ELSE SlotDigits[s]]_vars


(***************************************************************************)
(* C34: in the file-based and in the block-based branch the free space at  *)
(* the destination is checked before any disk data is downloaded or        *)
(* uploaded, and when it is less than 1.2 times the source file size the   *)
(* disk is aborted with no data moved.                                     *)
(***************************************************************************)
C34_SpaceCheckedBeforeTransfer ==
  \A t \in Threads :
    LET c == loc[t].copy IN
    (c.downloaded \/ c.uploaded)
      => /\ c.checked
         /\ c.df = "ok" => c.avail_gb * 100 >= c.size10 * 12

\* the same for the file-based branch alone
C34_SpaceCheckedBeforeTransfer_FileBranch ==
  \A t \in Threads :
    LET c == loc[t].copy IN
    (c.branch = "file" /\ (c.downloaded \/ c.uploaded))
      => /\ c.checked
         /\ c.df = "ok" => c.avail_gb * 100 >= c.size10 * 12


(***************************************************************************)
(* C35: after a successful upload (and a rename that did not fail) the     *)
(* artifact on the destination host is named                               *)
(* vm-<destination vmid>-disk-<n>.<format>, n being the disk number of the *)
(* uploaded file name and format the image format of the disk.             *)
(***************************************************************************)
C35_ArtifactNamedByFormat ==
  \A t \in Threads :
    LET c == loc[t].copy IN
    (pc[t] = "copied" /\ c.uploaded /\ c.num >= 0 /\ c.rename_tried = {"sftp"})
      => c.dest_name = [vmid |-> c.data_vmid, num |-> c.num, exts |-> <<c.format>>]


(***************************************************************************)
(* C36: when the rename of the uploaded artifact over the file-transfer    *)
(* protocol fails, a shell-command rename is tried; if that fails too the  *)
(* copy of the disk fails (and with it the run ends in error).             *)
(***************************************************************************)
C36_FailedRenameIsFatal ==
  \A t \in Threads :
    LET c == loc[t].copy IN
    (pc[t] \in {"copied", "copy_failed"} /\ "sftp" \in c.rename_tried
     /\ c.dest_name # RenamedName(c))
      => "ssh" \in c.rename_tried /\ pc[t] = "copy_failed"


(***************************************************************************)
(* C39: whenever no disk download or upload is in progress, in particular  *)
(* after a run has ended in error and at the start of the next run, the    *)
(* active flag of the disk-transfer sub-record is false.                   *)
(***************************************************************************)
C39_TransferInactiveWhenIdle ==
  migration_status.disk_transfer.active
    => \E t \in Threads : pc[t] \in {"downloading", "uploading"}

\* the same at the start of a run only
C39_TransferInactiveAtRunStart ==
  \A t \in Threads :
    pc[t] = "validate" => ~migration_status.disk_transfer.active


(***************************************************************************)
(* C37: the size requested for a destination disk is never smaller than    *)
(* the size stated in the source disk's size= option, whatever its unit    *)
(* (bare bytes, K, M, G or T).                                             *)
(***************************************************************************)
\* size covers raw; the two sides are compared in the larger of the two
\* units, the smaller one rounded up
NotSmaller(size, raw) ==
  IF raw.unit = size.unit THEN size.num >= raw.num
  ELSE IF raw.unit = "K" /\ size.unit = "M" THEN size.num * KiB >= raw.num
  ELSE IF raw.unit = "" /\ size.unit = "M" THEN size.num * MiB >= raw.num
  ELSE IF raw.unit = "" /\ size.unit = "G"
  THEN size.num * KiB >= (raw.num + MiB - 1) \div MiB
  ELSE FALSE

C37_SizeNotSmallerThanSource ==
  LET raw == loc[Updater].raw_size
      size == loc[Updater].size
  IN  (/\ pc[Updater] = "disk_create"
       /\ raw # NoSizeOption
       /\ raw.unit \in {"", "K", "M", "G", "T"})
        => NotSmaller(size, raw)

\* the same for sizes with a unit letter only
C37_SizeNotSmallerThanSource_WithUnit ==
  LET raw == loc[Updater].raw_size
      size == loc[Updater].size
  IN  (/\ pc[Updater] = "disk_create"
       /\ raw # NoSizeOption
       /\ raw.unit \in {"K", "M", "G", "T"})
        => NotSmaller(size, raw)


(***************************************************************************)
(* C38: disk data is copied from the source only when the source VM was    *)
(* found not running at the status check of this run or was reported       *)
(* stopped after the stop command.                                         *)
(***************************************************************************)
C38_CopyOnlyFromStoppedVm ==
  \A t \in Threads : \A s \in Slots :
    Did(t, "copy", s)
      => \/ loc[t].vm_status = "stopped"
         \/ FoundRunning(t) /\ hist[t].confirmed /\ src_vm.status = "stopped"

\* a run that found the VM stopped has copied a disk
C38_Witness ==
  \E t \in Threads : \E s \in Slots :
    /\ Did(t, "copy", s)
    /\ loc[t].vm_status = "stopped"
    /\ ~FoundRunning(t)


(***************************************************************************)
(* C40: a selected disk slot whose options contain media=cdrom or whose    *)
(* file name ends in .iso is skipped: no destination disk is created,      *)
(* attached or copied for it, and the run goes on with the next disk       *)
(* without failing.                                                        *)
(***************************************************************************)
C40_CdromSkipped ==
  [][\A t \in Threads :
       LET q == loc[t].queue
           cfg == loc[t].disk_configs
       IN  /\ (/\ pc[t] = "disk_next"
               /\ q # <<>>
               /\ cfg[Head(q)].cdrom
               /\ loc'[t] # loc[t])
             => /\ loc'[t].queue = Tail(q)
                /\ pc'[t] = IF Len(q) > 1 THEN "disk_next" ELSE "network"
                /\ loc'[t].error_msg = <<>>
                /\ migration_status'.step = "disk_skipped"
                /\ hist'[t] = hist[t]
                /\ dest_vols' = dest_vols
                /\ dest_attached' = dest_attached
           /\ \A s \in DOMAIN loc'[t].disk_configs :
                loc'[t].disk_configs[s].cdrom
                  => \A op \in {"create", "attach", "copy"} : ~Did(t, op, s)'
    ]_vars

\* a run has passed over the CD-ROM in scsi0 and copied the disk in scsi1
C40_Witness ==
  \E t \in Threads :
    /\ DOMAIN loc[t].disk_configs = {"scsi0", "scsi1"}
    /\ loc[t].disk_configs["scsi0"].cdrom
    /\ "scsi0" \in DOMAIN data[t].storage_mappings
    /\ Did(t, "copy", "scsi1")
    /\ \A op \in {"create", "attach", "copy"} : ~Did(t, op, "scsi0")
    /\ ~Failed(t)

=============================================================================
